---------------------------- MODULE Spec2Model ----------------------------
(***************************************************************************)
(* Model of the deterministic extraction-and-matching engine of the        *)
(* study-abroad counselling repository:                                    *)
(*   src/src/utils/basetools/scholarship_matching_tool.py                  *)
(*   src/src/utils/basetools/financial_calculation_tool.py                 *)
(*   src/src/utils/basetools/scholarship_analysis_tool.py                  *)
(*   src/src/utils/basetools/student_classification_tool.py                *)
(*   src/workflow/SAMPLE.py                                                *)
(*                                                                         *)
(* Python str values are sequences of one-character strings, so that       *)
(* lower(), `in`, strip() and the regular expressions are computed and not *)
(* assumed.  Python None is the one-element sequence <<"None">>, which is  *)
(* no string because "None" is no character.  Python floats are exact      *)
(* rationals: decimal literals are [ok, m, e] (m / 10^e), scores are       *)
(* [num, den], money is an integer number of cents.                        *)
(***************************************************************************)
EXTENDS Integers, Sequences, FiniteSets, TLC


(***************************************************************************)
(* Strings                                                                 *)
(***************************************************************************)
None == <<"None">>

RECURSIVE CharsFrom(_, _)
CharsFrom(literal, i) ==
  IF i > Len(literal) THEN <<>>
  ELSE <<SubSeq(literal, i, i)>> \o CharsFrom(literal, i + 1)

\* the Python str of a string literal: the sequence of its characters
Str(literal) == CharsFrom(literal, 1)

UpperCase == <<"A", "B", "C", "D", "E", "F", "G", "H", "I", "J", "K", "L", "M",
               "N", "O", "P", "Q", "R", "S", "T", "U", "V", "W", "X", "Y", "Z">>
LowerCase == <<"a", "b", "c", "d", "e", "f", "g", "h", "i", "j", "k", "l", "m",
               "n", "o", "p", "q", "r", "s", "t", "u", "v", "w", "x", "y", "z">>
Digits == <<"0", "1", "2", "3", "4", "5", "6", "7", "8", "9">>
\* the whitespace characters the inputs use
WhiteSpace == {" ", "\n", "\t"}

\* int(c) of each digit
ToDigit == [c \in {Digits[d] : d \in 1..Len(Digits)} |->
              (CHOOSE d \in 1..Len(Digits) : Digits[d] = c) - 1]
IsDigit(c) == c \in DOMAIN ToDigit
DigitVal(c) == ToDigit[c]

\* the lower-case letter of each upper-case letter
ToLower == [c \in {UpperCase[k] : k \in 1..Len(UpperCase)} |->
              LowerCase[CHOOSE k \in 1..Len(UpperCase) : UpperCase[k] = c]]

LowerCh(c) == IF c \in DOMAIN ToLower THEN ToLower[c] ELSE c

\* str.lower()
Lower(s) == [i \in 1..Len(s) |-> LowerCh(s[i])]

\* sub in s
Contains(s, sub) ==
  \E i \in 0..(Len(s) - Len(sub)) : \A k \in 1..Len(sub) : s[i + k] = sub[k]

\* x in [a, b, ...] for a list of strings
InList(x, list) == \E i \in 1..Len(list) : list[i] = x

\* dict.get(key, default)
Get(map, key, default) == IF key \in DOMAIN map THEN map[key] ELSE default

RECURSIVE Pow10(_)
Pow10(n) == IF n = 0 THEN 1 ELSE 10 * Pow10(n - 1)

\* the least element of a non-empty set of numbers
Least(S) == CHOOSE i \in S : \A j \in S : i <= j

RECURSIVE ClassEnd(_, _, _)
\* the end of the maximal run of characters of class that starts at s[i] (i - 1
\* when s[i] is not of the class)
ClassEnd(s, i, class) ==
  IF i <= Len(s) /\ s[i] \in class THEN ClassEnd(s, i + 1, class) ELSE i - 1

\* \d
DigitClass == DOMAIN ToDigit

\* the end of the maximal run of digits of s that starts at i (i - 1: no digit at i)
RunEnd(s, i) == ClassEnd(s, i, DigitClass)

RECURSIVE IntOf(_, _, _)
\* int(s[i..j]) of a run of digits, 0 for the empty run
IntOf(s, i, j) == IF j < i THEN 0 ELSE 10 * IntOf(s, i, j - 1) + DigitVal(s[j])

NoNumber == [ok |-> FALSE, m |-> 0, e |-> 0]

\* float(group 1) of the pattern (\d+\.?\d*) matched at the digit s[p]
DecimalAt(s, p) ==
  LET Whole(j) ==
        LET Both(j2) == [ok |-> TRUE,
                         m |-> IntOf(s, p, j) * Pow10(j2 - (j + 1)) + IntOf(s, j + 2, j2),
                         e |-> j2 - (j + 1)]
        IN  IF j < Len(s) /\ s[j + 1] = "."
            THEN Both(RunEnd(s, j + 2))
            ELSE [ok |-> TRUE, m |-> IntOf(s, p, j), e |-> 0]
  IN  Whole(RunEnd(s, p))

\* int(group 1) of the pattern (\d+) matched at the digit s[p]
IntegerAt(s, p) == [ok |-> TRUE, m |-> IntOf(s, p, RunEnd(s, p)), e |-> 0]

\* re.search(r'(\d+\.?\d*)', s): the leftmost number of s, as a float
SearchDecimal(s) ==
  LET At(digits) == IF digits = {} THEN NoNumber ELSE DecimalAt(s, Least(digits))
  IN  At({p \in 1..Len(s) : IsDigit(s[p])})

\* s[i:].startswith(str)
StartsAt(s, i, str) ==
  /\ i + Len(str) - 1 <= Len(s)
  /\ \A k \in 1..Len(str) : s[i + k - 1] = str[k]

\* the place of the digit that follows prefix and \s* when prefix matches at i, else 0
DigitAfter(s, i, prefix) ==
  LET Digit(k) == IF k <= Len(s) /\ IsDigit(s[k]) THEN k ELSE 0
  IN  IF StartsAt(s, i, prefix)
      THEN Digit(ClassEnd(s, i + Len(prefix), WhiteSpace) + 1)
      ELSE 0

\* re.search(prefix + r'\s*(\d+\.?\d*)', s) when decimal, prefix + r'\s*(\d+)' otherwise
SearchAfter(s, prefix, decimal) ==
  LET Number(p) == IF decimal THEN DecimalAt(s, p) ELSE IntegerAt(s, p)
      At(starts) == IF starts = {} THEN NoNumber
                    ELSE Number(DigitAfter(s, Least(starts), prefix))
  IN  At({i \in 1..Len(s) : DigitAfter(s, i, prefix) # 0})

\* a >= b for two numbers
NumGeq(a, b) == a.m * Pow10(b.e) >= b.m * Pow10(a.e)
\* a >= b * 0.8
NumGeq80(a, b) == 10 * a.m * Pow10(b.e) >= 8 * b.m * Pow10(a.e)
\* a >= b * 0.9
NumGeq90(a, b) == 10 * a.m * Pow10(b.e) >= 9 * b.m * Pow10(a.e)
\* a >= b - 0.2
NumGeqLess02(a, b) == 10 * a.m * Pow10(b.e) + 2 * Pow10(a.e) * Pow10(b.e) >= 10 * b.m * Pow10(a.e)
\* the truth value Python gives an Optional[float]: None and 0 are false
Truthy(a) == a.ok /\ a.m # 0

(***************************************************************************)
(* Scores: Python floats as exact rationals [num, den], den > 0            *)
(***************************************************************************)
R(n) == [num |-> n, den |-> 1]
RAdd(a, b) == [num |-> a.num * b.den + b.num * a.den, den |-> a.den * b.den]
RGeq(a, n) == a.num >= n * a.den
RLeq(a, n) == a.num <= n * a.den
RLess(a, b) == a.num * b.den < b.num * a.den
REq(a, b) == a.num * b.den = b.num * a.den

\* round(x, 1), in tenths: to the nearest tenth, a tie to the even tenth
Round1(a) ==
  LET q == (10 * a.num) \div a.den
      r == (10 * a.num) % a.den
  IN  IF 2 * r > a.den \/ (2 * r = a.den /\ q % 2 = 1) THEN q + 1 ELSE q

(***************************************************************************)
(* scholarship_matching_tool.py                                            *)
(*                                                                         *)
(* The local variables of a function are the parameters of a LET operator  *)
(* applied to the expressions the code assigns to them.                    *)
(***************************************************************************)
\* Region match (8 points)
RegionMatch(student, scholarship) ==
  LET Match(student_region, target_region) ==
        IF InList(target_region, <<Str("all"), Str("international"), Str("global")>>)
        THEN [score |-> 8, matches |-> <<"Region: International scholarship">>, missing |-> <<>>]
        ELSE IF Contains(target_region, student_region) \/ Contains(student_region, target_region)
        THEN [score |-> 8, matches |-> <<"Region: Matches">>, missing |-> <<>>]
        ELSE IF /\ Contains(target_region, Str("developing"))
                /\ InList(student_region, <<Str("vietnam"), Str("asia"), Str("southeast_asia")>>)
        THEN [score |-> 6, matches |-> <<"Region: Developing countries eligible">>, missing |-> <<>>]
        ELSE [score |-> 0, matches |-> <<>>, missing |-> <<"Region mismatch">>]
  IN  Match(Lower(Get(student, "region", Str(""))),
            Lower(Get(scholarship, "target_region", Str(""))))

\* Age group match (4 points)
AgeMatch(student, scholarship) ==
  LET Match(student_age, target_age) ==
        IF InList(target_age, <<Str("all"), Str("")>>) \/ student_age = target_age
        THEN [score |-> 4, matches |-> <<"Age group: Matches">>, missing |-> <<>>]
        ELSE [score |-> 0, matches |-> <<>>, missing |-> <<"Age group mismatch">>]
  IN  Match(Get(student, "age_group", Str("")), Get(scholarship, "target_age_group", Str("")))

\* Gender match and religion match (4 points each): the same chain on another key;
\* msg holds the four messages of the chain
NeutralMatch(student_value, target_value, msg) ==
  IF target_value = None
  THEN [score |-> 4, matches |-> <<msg[1]>>, missing |-> <<>>]
  ELSE IF student_value = target_value
  THEN [score |-> 4, matches |-> <<msg[2]>>, missing |-> <<>>]
  ELSE IF student_value = None
  THEN [score |-> 2, matches |-> <<msg[3]>>, missing |-> <<>>]
  ELSE [score |-> 0, matches |-> <<>>, missing |-> <<msg[4]>>]

GenderMatch(student, scholarship) ==
  NeutralMatch(Get(student, "gender", None), Get(scholarship, "target_gender", None),
               <<"Gender: Gender-neutral scholarship", "Gender: Matches",
                 "Gender: Not specified, may be eligible", "Gender mismatch">>)

ReligionMatch(student, scholarship) ==
  NeutralMatch(Get(student, "religion", None), Get(scholarship, "target_religion", None),
               <<"Religion: Religion-neutral scholarship", "Religion: Matches",
                 "Religion: Not specified, may be eligible", "Religion mismatch">>)

check_demographic_match(student, scholarship) ==
  LET Sum(rg, ag, ge, re) ==
        [score |-> R(rg.score + ag.score + ge.score + re.score),
         matches |-> rg.matches \o ag.matches \o ge.matches \o re.matches,
         missing |-> rg.missing \o ag.missing \o ge.missing \o re.missing,
         suggestions |-> <<>>]
  IN  Sum(RegionMatch(student, scholarship), AgeMatch(student, scholarship),
          GenderMatch(student, scholarship), ReligionMatch(student, scholarship))

\* estimate_gpa_from_profile with the estimates of the bands two places lower
estimate_gpa_two_bands_low(profile_score) ==
  [ok |-> TRUE, e |-> 1,
   m |-> IF profile_score >= 9 THEN 34
         ELSE IF profile_score >= 8 THEN 32
         ELSE IF profile_score >= 7 THEN 30
         ELSE 28]

\* the estimated GPA with the bands of 7 and of 8 exchanged
estimate_gpa_bands_exchanged(profile_score) ==
  [ok |-> TRUE, e |-> 1,
   m |-> IF profile_score >= 9 THEN 38
         ELSE IF profile_score >= 8 THEN 34
         ELSE IF profile_score >= 7 THEN 36
         ELSE IF profile_score >= 6 THEN 32
         ELSE IF profile_score >= 5 THEN 30
         ELSE 28]

\* the estimated GPA, a float with one decimal
estimate_gpa_from_profile(profile_score) ==
  [ok |-> TRUE, e |-> 1,
   m |-> IF profile_score >= 9 THEN 38
         ELSE IF profile_score >= 8 THEN 36
         ELSE IF profile_score >= 7 THEN 34
         ELSE IF profile_score >= 6 THEN 32
         ELSE IF profile_score >= 5 THEN 30
         ELSE 28]

\* Profile score assessment (15 points)
ProfileBand(profile_score, academic_reqs) ==
  IF profile_score >= 8
  THEN [score |-> 15, matches |-> <<"Academic performance: Strong profile">>,
        missing |-> <<>>, suggestions |-> <<>>]
  ELSE IF profile_score >= 6
  THEN [score |-> 12, matches |-> <<"Academic performance: Good profile">>,
        missing |-> <<>>, suggestions |-> <<>>]
  ELSE IF profile_score >= 4
  THEN [score |-> 8, matches |-> <<"Academic performance: Adequate profile">>,
        missing |-> <<>>,
        suggestions |->
          IF \E i \in 1..Len(academic_reqs) : Contains(Lower(academic_reqs[i]), Str("honor"))
          THEN <<"Work on achieving academic honors to strengthen profile">>
          ELSE <<>>]
  ELSE [score |-> 4, matches |-> <<>>,
        missing |-> <<"Academic performance: Below average profile">>,
        suggestions |-> <<"Focus on improving GPA and academic achievements">>]

IsGpaReq(req) == Contains(Lower(req), Str("gpa"))

\* the comparison of the estimated GPA with the required one
GpaCompare(estimated_gpa, required_gpa) ==
  IF NumGeq(estimated_gpa, required_gpa)
  THEN [score |-> 15, matches |-> <<"GPA requirement: Meets minimum">>,
        missing |-> <<>>, suggestions |-> <<>>]
  ELSE IF NumGeqLess02(estimated_gpa, required_gpa)
  THEN [score |-> 10, matches |-> <<"GPA requirement: Close to minimum">>,
        missing |-> <<>>,
        suggestions |-> <<"Work on raising GPA to meet requirement">>]
  ELSE [score |-> 0, matches |-> <<>>,
        missing |-> <<"GPA requirement: Need minimum">>,
        suggestions |-> <<"Significant GPA improvement needed">>]

\* Specific GPA requirements (15 points): the loop leaves at the first requirement
\* that holds a number
GpaMatch(profile_score, academic_reqs) ==
  LET Match(gpa_requirements) ==
        LET First(numbered) ==
              IF numbered = {}
              THEN [score |-> 0, matches |-> <<>>, missing |-> <<>>, suggestions |-> <<>>]
              ELSE GpaCompare(estimate_gpa_from_profile(profile_score),
                              SearchDecimal(gpa_requirements[Least(numbered)]))
        IN  IF gpa_requirements = <<>>
            THEN [score |-> 10, matches |-> <<"GPA requirement: No specific GPA requirement">>,
                  missing |-> <<>>, suggestions |-> <<>>]
            ELSE First({i \in 1..Len(gpa_requirements) : SearchDecimal(gpa_requirements[i]).ok})
  IN  Match(SelectSeq(academic_reqs, IsGpaReq))

DefaultProfileScore == 5

check_academic_match(student, scholarship) ==
  LET Sum(band, gpa) ==
        [score |-> R(band.score + gpa.score),
         matches |-> band.matches \o gpa.matches,
         missing |-> band.missing \o gpa.missing,
         suggestions |-> band.suggestions \o gpa.suggestions]
      Match(profile_score, academic_reqs) ==
        Sum(ProfileBand(profile_score, academic_reqs), GpaMatch(profile_score, academic_reqs))
  IN  Match(Get(student, "profile_score", DefaultProfileScore),
            Get(scholarship, "academic_requirements", <<>>))

\* the four score extractors: r'ielts:\s*(\d+\.?\d*)' as a float, and
\* r'toefl:\s*(\d+)', r'sat:\s*(\d+)', r'gre:\s*(\d+)' as an int
extract_score(cert_type, cert_text) ==
  SearchAfter(Lower(cert_text), Str(cert_type) \o <<":">>, cert_type = "ielts")

NoCheck == [score |-> 0, matches |-> <<>>, missing |-> <<>>, suggestions |-> <<>>]

\* the comparison of the student's score with the required one
ScoreCompare(student_score, required_score) ==
  IF Truthy(student_score) /\ Truthy(required_score)
  THEN IF NumGeq(student_score, required_score)
       THEN [NoCheck EXCEPT !.score = 8, !.matches = <<"meets requirement">>]
       ELSE IF NumGeq90(student_score, required_score)
       THEN [NoCheck EXCEPT !.score = 6, !.matches = <<"close to requirement">>,
                            !.suggestions = <<"Retake to reach requirement">>]
       ELSE [NoCheck EXCEPT !.score = 3, !.missing = <<"below requirement">>,
                            !.suggestions = <<"Significant improvement needed">>]
  ELSE IF Truthy(student_score)
  THEN [NoCheck EXCEPT !.score = 5, !.matches = <<"Have certificate with score">>]
  ELSE [NoCheck EXCEPT !.score = 3,
                       !.matches = <<"Have certificate but score not specified">>]

\* the first certificate of the student that names the type is the one compared
check_specific_certificate(student_certs, required, cert_type) ==
  LET Check(having) ==
        IF having # {}
        THEN ScoreCompare(extract_score(cert_type, student_certs[Least(having)]),
                          SearchDecimal(required))
        ELSE [NoCheck EXCEPT !.missing = <<"Certificate required but not obtained">>,
                             !.suggestions = <<"Obtain certificate with minimum score">>]
  IN  Check({i \in 1..Len(student_certs) : Contains(Lower(student_certs[i]), Str(cert_type))})

\* the if/elif chain on the certificate type of one required certificate
CertType(req_cert_lower) ==
  IF Contains(req_cert_lower, Str("ielts")) THEN "ielts"
  ELSE IF Contains(req_cert_lower, Str("toefl")) THEN "toefl"
  ELSE IF Contains(req_cert_lower, Str("sat")) THEN "sat"
  ELSE IF Contains(req_cert_lower, Str("gre")) THEN "gre"
  ELSE "other"

\* one turn of the loop over required_certs
CertStep(student_certs, req_cert) ==
  LET Step(cert_type) ==
        IF cert_type = "other" THEN NoCheck
        ELSE check_specific_certificate(student_certs, req_cert, cert_type)
  IN  Step(CertType(Lower(req_cert)))

RECURSIVE CertLoop(_, _, _)
\* the loop over required_certs[1..n]: scores and lists accumulate
CertLoop(student_certs, required_certs, n) ==
  LET Add(acc, cur) ==
        [score |-> acc.score + cur.score,
         matches |-> acc.matches \o cur.matches,
         missing |-> acc.missing \o cur.missing,
         suggestions |-> acc.suggestions \o cur.suggestions]
  IN  IF n = 0 THEN NoCheck
      ELSE Add(CertLoop(student_certs, required_certs, n - 1),
               CertStep(student_certs, required_certs[n]))

\* the credit of the no-requirement branch
NoCertRequirementScore == 15

\* the 25 points of the category, whatever is required
check_certificate_match_full_credit(student, scholarship) ==
  [score |-> R(25), matches |-> <<"Certificates: No specific requirements">>,
   missing |-> <<>>, suggestions |-> <<>>]

check_certificate_match(student, scholarship) ==
  LET Close(each, none) ==
        [score |-> R(each.score),
         matches |-> each.matches,
         missing |-> each.missing \o
                     (IF each.score = 0 /\ none
                      THEN <<"Missing required international certificates">> ELSE <<>>),
         suggestions |-> each.suggestions \o
                     (IF each.score = 0 /\ none
                      THEN <<"Obtain required certificates">> ELSE <<>>)]
      Match(student_certs, required_certs) ==
        IF \/ required_certs = <<>>
           \/ \E i \in 1..Len(required_certs) :
                Contains(Lower(required_certs[i]), Str("no specific"))
        THEN [score |-> R(NoCertRequirementScore),
              matches |-> <<"Certificates: No specific requirements">>,
              missing |-> <<>>, suggestions |-> <<>>]
        ELSE Close(CertLoop(student_certs, required_certs, Len(required_certs)),
                   \E i \in 1..Len(student_certs) :
                     Contains(Lower(student_certs[i]), Str("no international")))
  IN  Match(Get(student, "certificates_list", <<>>),
            Get(scholarship, "required_certificates", <<>>))

\* the credit of the no-requirement branch
NoExtraRequirementScore == 10
\* the weight of the overlap ratio
ExtraWeight == 15

\* [activity.lower() for activity in activities]
LowerAll(activities) == [i \in 1..Len(activities) |-> Lower(activities[i])]

\* every required activity taken as found, whatever the activities of the student
check_extracurricular_match_all_found(student, scholarship) ==
  LET Match(required_activities) ==
        IF \E i \in 1..Len(required_activities) :
             Contains(Lower(required_activities[i]), Str("no specific"))
        THEN [score |-> R(NoExtraRequirementScore),
              matches |-> <<"Extracurricular: No specific requirements">>,
              missing |-> <<>>, suggestions |-> <<>>]
        ELSE [score |-> R(ExtraWeight),
              matches |-> [k \in 1..Len(required_activities) |->
                             "Extracurricular: activity present"],
              missing |-> <<>>, suggestions |-> <<>>]
  IN  Match(Get(scholarship, "required_extracurricular", <<>>))

check_extracurricular_match(student, scholarship) ==
  LET Ratio(required_activities, overlap_count, missing_activities) ==
        [score |-> [num |-> overlap_count * ExtraWeight, den |-> Len(required_activities)],
         matches |-> [k \in 1..overlap_count |-> "Extracurricular: activity present"],
         missing |-> IF 2 * overlap_count < Len(required_activities)
                     THEN [k \in 1..missing_activities |-> "Missing activity"]
                     ELSE <<>>,
         suggestions |-> IF 2 * overlap_count < Len(required_activities)
                         THEN [k \in 1..missing_activities |-> "Consider engaging"]
                         ELSE <<>>]
      Overlap(required_activities, student_lower, required_lower) ==
        Ratio(required_activities,
              Cardinality({i \in 1..Len(required_lower) :
                             \E j \in 1..Len(student_lower) :
                               \/ Contains(student_lower[j], required_lower[i])
                               \/ Contains(required_lower[i], student_lower[j])}),
              Cardinality({i \in 1..Len(required_lower) :
                             ~ \E j \in 1..Len(student_lower) :
                                 Contains(Lower(student_lower[j]), required_lower[i])}))
      Match(student_activities, required_activities) ==
        IF \E i \in 1..Len(required_activities) :
             Contains(Lower(required_activities[i]), Str("no specific"))
        THEN [score |-> R(NoExtraRequirementScore),
              matches |-> <<"Extracurricular: No specific requirements">>,
              missing |-> <<>>, suggestions |-> <<>>]
        ELSE IF Len(required_activities) > 0
        THEN Overlap(required_activities, LowerAll(student_activities),
                     LowerAll(required_activities))
        ELSE [score |-> R(0), matches |-> <<>>, missing |-> <<>>, suggestions |-> <<>>]
  IN  Match(Get(student, "extracurricular_list", <<>>),
            Get(scholarship, "required_extracurricular", <<>>))

check_field_match(student, scholarship) ==
  LET Match(student_field, scholarship_field) ==
        IF InList(scholarship_field, <<Str("all"), Str("")>>)
        THEN [score |-> R(10), matches |-> <<"Field of study: Open to all fields">>,
              missing |-> <<>>, suggestions |-> <<>>]
        ELSE IF student_field = scholarship_field
        THEN [score |-> R(10), matches |-> <<"Field of study: Perfect match">>,
              missing |-> <<>>, suggestions |-> <<>>]
        ELSE IF \/ Contains(scholarship_field, student_field)
                \/ Contains(student_field, scholarship_field)
        THEN [score |-> R(8), matches |-> <<"Field of study: Related field match">>,
              missing |-> <<>>, suggestions |-> <<>>]
        ELSE [score |-> R(0), matches |-> <<>>, missing |-> <<"Field mismatch">>,
              suggestions |-> <<>>]
  IN  Match(Lower(Get(student, "target_field", Str(""))),
            Lower(Get(scholarship, "field_of_study", Str(""))))

\* the levels, were each to start above its threshold
determine_match_level_above(score) ==
  IF ~RLeq(score, 80) THEN "excellent"
  ELSE IF ~RLeq(score, 65) THEN "good"
  ELSE IF ~RLeq(score, 45) THEN "fair"
  ELSE IF ~RLeq(score, 25) THEN "poor"
  ELSE "no_match"

determine_match_level(score) ==
  IF RGeq(score, 80) THEN "excellent"
  ELSE IF RGeq(score, 65) THEN "good"
  ELSE IF RGeq(score, 45) THEN "fair"
  ELSE IF RGeq(score, 25) THEN "poor"
  ELSE "no_match"

\* the priority, were it to follow the score alone
determine_application_priority_by_score(score, missing_requirements) ==
  IF RGeq(score, 80) THEN "HIGH - Strong match, apply immediately"
  ELSE IF RGeq(score, 65) THEN "MEDIUM - Good match, prepare application"
  ELSE IF RGeq(score, 45) THEN "LOW - Fair match, consider as backup"
  ELSE "VERY LOW - Poor match, focus on improvement first"

determine_application_priority(score, missing_requirements) ==
  IF RGeq(score, 80) /\ Len(missing_requirements) <= 1
  THEN "HIGH - Strong match, apply immediately"
  ELSE IF RGeq(score, 65) /\ Len(missing_requirements) <= 2
  THEN "MEDIUM - Good match, prepare application"
  ELSE IF RGeq(score, 45)
  THEN "LOW - Fair match, consider as backup"
  ELSE "VERY LOW - Poor match, focus on improvement first"

\* str.lower() of None raises AttributeError: the four .lower() calls on map values
AnalyzeRaises(student, scholarship) ==
  \/ Get(student, "region", Str("")) = None
  \/ Get(scholarship, "target_region", Str("")) = None
  \/ Get(student, "target_field", Str("")) = None
  \/ Get(scholarship, "field_of_study", Str("")) = None

\* the local variables of _analyze_scholarship_match when it reaches its return
AnalyzeLocals(student, scholarship) ==
  LET Level(locals) ==
        [locals EXCEPT
           !.match_level = determine_match_level(locals.match_score),
           !.priority = determine_application_priority(locals.match_score,
                                                       locals.missing_requirements)]
      Locals(demo, academic, cert, extra, fld) ==
        Level([demo_score |-> demo.score,
               academic_score |-> academic.score,
               cert_score |-> cert.score,
               extra_score |-> extra.score,
               field_score |-> fld.score,
               match_score |-> RAdd(RAdd(RAdd(RAdd(demo.score, academic.score), cert.score),
                                         extra.score), fld.score),
               matching_criteria |-> demo.matches \o academic.matches \o cert.matches
                                     \o extra.matches \o fld.matches,
               missing_requirements |-> demo.missing \o academic.missing \o cert.missing
                                        \o extra.missing \o fld.missing,
               improvement_suggestions |-> academic.suggestions \o cert.suggestions
                                           \o extra.suggestions,
               match_level |-> "", priority |-> ""])
  IN  Locals(check_demographic_match(student, scholarship),
             check_academic_match(student, scholarship),
             check_certificate_match(student, scholarship),
             check_extracurricular_match(student, scholarship),
             check_field_match(student, scholarship))

\* the MatchedScholarship built at the return of _analyze_scholarship_match
MatchedScholarship(scholarship, locals) ==
  [scholarship_name |-> Get(scholarship, "name", Str("Unknown Scholarship")),
   university |-> Get(scholarship, "university", Str("Unknown University")),
   match_level |-> locals.match_level,
   match_score |-> [num |-> Round1(locals.match_score), den |-> 10],
   matching_criteria |-> locals.matching_criteria,
   missing_requirements |-> locals.missing_requirements,
   scholarship_amount |-> Get(scholarship, "scholarship_amount", Str("Amount not specified")),
   improvement_suggestions |-> locals.improvement_suggestions,
   application_priority |-> locals.priority]

\* Returned without the test of the match level
ReturnedAlways(locals) == locals.match_level = locals.match_level

\* whether _analyze_scholarship_match returns a MatchedScholarship and not None
Returned(locals) == locals.match_level # "no_match"

\* InsertByScore placing x before the entries of equal score
InsertBeforeEqual(sorted, x) ==
  LET At(pos) == SubSeq(sorted, 1, pos) \o <<x>> \o SubSeq(sorted, pos + 1, Len(sorted))
  IN  At(Cardinality({i \in 1..Len(sorted) : RLess(x.match_score, sorted[i].match_score)}))

\* the place x takes in a list sorted by match_score, highest first: behind every
\* entry whose score is not lower (list.sort is stable)
InsertByScore(sorted, x) ==
  LET At(pos) == SubSeq(sorted, 1, pos) \o <<x>> \o SubSeq(sorted, pos + 1, Len(sorted))
  IN  At(Cardinality({i \in 1..Len(sorted) : ~RLess(sorted[i].match_score, x.match_score)}))

RECURSIVE SortByScore(_)
\* matched_scholarships.sort(key=lambda x: x.match_score, reverse=True)
SortByScore(list) ==
  IF list = <<>> THEN <<>>
  ELSE InsertByScore(SortByScore(SubSeq(list, 1, Len(list) - 1)), list[Len(list)])

\* list[:n]
Take(list, n) == SubSeq(list, 1, IF Len(list) < n THEN Len(list) ELSE n)

\* the number of best matches exposed
TopN == 3

RECURSIVE SumScores(_)
SumScores(list) ==
  IF list = <<>> THEN R(0)
  ELSE RAdd(SumScores(Tail(list)), Head(list).match_score)

CountLevel(list, level) == Cardinality({i \in 1..Len(list) : list[i].match_level = level})

\* the sentences of the summary: the counts and the band of the average score
generate_matching_summary(matched) ==
  LET Advice(total, n) ==
        IF total.num >= 70 * n * total.den
        THEN "Your profile is competitive for most scholarships."
        ELSE IF total.num >= 50 * n * total.den
        THEN "Your profile shows good potential with some areas for improvement."
        ELSE "Focus on strengthening your profile before applying."
  IN  IF matched = <<>>
      THEN [found |-> 0, excellent |-> 0, good |-> 0, fair |-> 0,
            advice |-> "No suitable scholarships found"]
      ELSE [found |-> Len(matched),
            excellent |-> CountLevel(matched, "excellent"),
            good |-> CountLevel(matched, "good"),
            fair |-> CountLevel(matched, "fair"),
            advice |-> Advice(SumScores(matched), Len(matched))]

(***************************************************************************)
(* Regular expressions of financial_calculation_tool.py                    *)
(*                                                                         *)
(* A pattern is a sequence of steps, matched greedily from left to right.  *)
(* In every pattern below no step can take a character the step before it  *)
(* could have taken, so re never backtracks into a step and the greedy     *)
(* match is the match of re.                                               *)
(***************************************************************************)
\* a literal text
Lit(str) == [k |-> "lit", s |-> str]
\* zero or more characters of a class: \s*, [:\s]*
Star(class) == [k |-> "star", s |-> class]
\* an optional character: \$?
Opt(ch) == [k |-> "opt", s |-> ch]
\* group 1, one or more characters of a class: ([0-9,]+), (\d+)
Group(class) == [k |-> "group", s |-> class]
\* an optional literal text: (?:of)?, (?:score)?
OptLit(str) == [k |-> "optlit", s |-> str]
\* group 1 as a decimal number: (\d+\.?\d*)
DecimalGroup == [k |-> "decimal", s |-> "."]

\* [0-9,]
AmountClass == DigitClass \cup {","}
\* [:\s]
SepClass == WhiteSpace \cup {":"}

NoGroup == [ok |-> FALSE, from |-> 0, to |-> 0]

RECURSIVE MatchFrom(_, _, _, _, _)
\* the match of the steps n.. of pat at s[i], g the group matched so far
MatchFrom(s, i, pat, n, g) ==
  LET Grouped(j) == IF j < i THEN NoGroup
                    ELSE MatchFrom(s, j + 1, pat, n + 1, [ok |-> TRUE, from |-> i, to |-> j])
      Step(p) ==
        CASE p.k = "lit" ->
               IF StartsAt(s, i, p.s) THEN MatchFrom(s, i + Len(p.s), pat, n + 1, g)
               ELSE NoGroup
          [] p.k = "star" -> MatchFrom(s, ClassEnd(s, i, p.s) + 1, pat, n + 1, g)
          [] p.k = "opt" ->
               MatchFrom(s, IF i <= Len(s) /\ s[i] = p.s THEN i + 1 ELSE i, pat, n + 1, g)
          [] p.k = "group" -> Grouped(ClassEnd(s, i, p.s))
          [] p.k = "optlit" ->
               MatchFrom(s, IF StartsAt(s, i, p.s) THEN i + Len(p.s) ELSE i, pat, n + 1, g)
          [] p.k = "decimal" ->
               LET Whole(j) == IF j >= i /\ j < Len(s) /\ s[j + 1] = p.s
                               THEN Grouped(RunEnd(s, j + 2))
                               ELSE Grouped(j)
               IN  Whole(RunEnd(s, i))
  IN  IF n > Len(pat) THEN g ELSE Step(pat[n])

\* re.match(pat, s[i:]): group 1 of the match, as the places it takes in s
MatchAt(s, i, pat) == MatchFrom(s, i, pat, 1, [ok |-> TRUE, from |-> 0, to |-> 0])

\* re.findall(pat, s): group 1 of every match, leftmost first.  Two matches of one
\* pattern never overlap: no pattern can start inside what it has matched.
FindAll(s, pat) ==
  SelectSeq([i \in 1..Len(s) |-> MatchAt(s, i, pat)], LAMBDA g : g.ok)

\* re.search(pat, s): group 1 of the leftmost match
Search(s, pat) ==
  LET At(starts) == IF starts = {} THEN NoGroup ELSE MatchAt(s, Least(starts), pat)
  IN  At({i \in 1..Len(s) : MatchAt(s, i, pat).ok})

RECURSIVE DigitsOf(_, _, _)
\* the digits of s[from..to] as a number, and how many there are
DigitsOf(s, from, to) ==
  LET Add(rest) == IF IsDigit(s[to])
                   THEN [n |-> rest.n + 1, val |-> 10 * rest.val + DigitVal(s[to])]
                   ELSE rest
  IN  IF to < from THEN [n |-> 0, val |-> 0] ELSE Add(DigitsOf(s, from, to - 1))

\* float(match.replace(',', '')) of a group of [0-9,]: ValueError (ok false) when
\* the group holds no digit
FloatOf(s, g) ==
  LET Value(d) == [ok |-> d.n > 0, val |-> d.val]
  IN  Value(DigitsOf(s, g.from, g.to))

\* round(num / den) to the nearest integer, a tie to the even one
RoundHalfEven(num, den) ==
  LET Near(q, r) == IF 2 * r > den \/ (2 * r = den /\ q % 2 = 1) THEN q + 1 ELSE q
  IN  Near(num \div den, num % den)

\* the first entry of a dict, in insertion order, whose key is in text; 0 when none
FirstKeyIn(table, text) ==
  LET First(having) == IF having = {} THEN 0 ELSE Least(having)
  IN  First({k \in 1..Len(table) : Contains(text, table[k][1])})

(***************************************************************************)
(* financial_calculation_tool.py: amounts are in cents                     *)
(***************************************************************************)
Dollars(n) == 100 * n

\* r'tuition[:\s]*\$?([0-9,]+)(?:\s*per\s*year)?' (the optional tail ends the
\* pattern and holds no 'tuition': it changes no group and no later match),
\* r'annual\s*tuition[:\s]*\$?([0-9,]+)', r'yearly\s*fee[:\s]*\$?([0-9,]+)',
\* r'cost\s*per\s*year[:\s]*\$?([0-9,]+)', r'\$([0-9,]+)\s*per\s*year',
\* r'\$([0-9,]+)\s*annually'
tuition_patterns ==
  << <<Lit(Str("tuition")), Star(SepClass), Opt("$"), Group(AmountClass)>>,
     <<Lit(Str("annual")), Star(WhiteSpace), Lit(Str("tuition")), Star(SepClass), Opt("$"),
       Group(AmountClass)>>,
     <<Lit(Str("yearly")), Star(WhiteSpace), Lit(Str("fee")), Star(SepClass), Opt("$"),
       Group(AmountClass)>>,
     <<Lit(Str("cost")), Star(WhiteSpace), Lit(Str("per")), Star(WhiteSpace), Lit(Str("year")),
       Star(SepClass), Opt("$"), Group(AmountClass)>>,
     <<Lit(<<"$">>), Group(AmountClass), Star(WhiteSpace), Lit(Str("per")), Star(WhiteSpace),
       Lit(Str("year"))>>,
     <<Lit(<<"$">>), Group(AmountClass), Star(WhiteSpace), Lit(Str("annually"))>> >>

MinTuition == 5000
MaxTuition == 100000

RECURSIVE FirstTuition(_, _, _)
\* the loops over tuition_patterns and over the matches of each: the first figure
\* within 5K to 100K USD, 0 when there is none
FirstTuition(text_lower, matches, p) ==
  LET Try(cost) == IF cost.ok /\ MinTuition <= cost.val /\ cost.val <= MaxTuition
                   THEN Dollars(cost.val)
                   ELSE FirstTuition(text_lower, Tail(matches), p)
  IN  IF matches # <<>> THEN Try(FloatOf(text_lower, Head(matches)))
      ELSE IF p < Len(tuition_patterns)
      THEN FirstTuition(text_lower, FindAll(text_lower, tuition_patterns[p + 1]), p + 1)
      ELSE 0

\* parse_tuition_from_text reading the snippets of every university
parse_tuition_from_text_any_university(text, university) ==
  FirstTuition(Lower(text), <<>>, 0)

parse_tuition_from_text(text, university) ==
  LET Parse(text_lower) ==
        IF ~Contains(text_lower, Lower(university)) THEN 0
        ELSE FirstTuition(text_lower, <<>>, 0)
  IN  Parse(Lower(text))

base_tuition ==
  << <<Str("usa"), 35000>>, <<Str("united states"), 35000>>, <<Str("canada"), 25000>>,
     <<Str("uk"), 30000>>, <<Str("united kingdom"), 30000>>, <<Str("australia"), 28000>>,
     <<Str("germany"), 8000>>, <<Str("netherlands"), 12000>>, <<Str("france"), 10000>>,
     <<Str("singapore"), 20000>>, <<Str("japan"), 15000>>, <<Str("south korea"), 12000>> >>

DefaultTuition == 25000

\* the multipliers, in tenths
field_multipliers ==
  << <<Str("medicine"), 15>>, <<Str("medical"), 15>>, <<Str("law"), 13>>,
     <<Str("business"), 12>>, <<Str("mba"), 14>>, <<Str("engineering"), 11>>,
     <<Str("computer science"), 11>>, <<Str("arts"), 9>>, <<Str("humanities"), 9>>,
     <<Str("education"), 8>> >>

estimate_tuition_by_location_and_field(location, field) ==
  LET Estimate(c, f) ==
        \* round(tuition * multiplier, 2)
        RoundHalfEven(Dollars(IF c = 0 THEN DefaultTuition ELSE base_tuition[c][2])
                      * (IF f = 0 THEN 10 ELSE field_multipliers[f][2]), 10)
  IN  Estimate(FirstKeyIn(base_tuition, Lower(location)),
               FirstKeyIn(field_multipliers, Lower(field)))

RECURSIVE extract_tuition_cost(_, _, _, _)
extract_tuition_cost(university, field, location, search_results) ==
  LET Found(tuition) ==
        IF tuition > 0 THEN tuition
        ELSE extract_tuition_cost(university, field, location, Tail(search_results))
  IN  IF search_results = <<>>
      THEN estimate_tuition_by_location_and_field(location, field)
      ELSE Found(parse_tuition_from_text(Head(search_results), university))

level_duration ==
  << <<Str("undergraduate"), 4>>, <<Str("bachelor"), 4>>, <<Str("graduate"), 2>>,
     <<Str("master"), 2>>, <<Str("mba"), 2>>, <<Str("doctorate"), 4>>, <<Str("phd"), 4>> >>

DefaultDuration == 4

estimate_program_duration(academic_level) ==
  LET Duration(k) == IF k = 0 THEN DefaultDuration ELSE level_duration[k][2]
  IN  Duration(FirstKeyIn(level_duration, Lower(academic_level)))

\* r'\$([0-9,]+)\s*per\s*year', r'\$([0-9,]+)\s*annually', r'up to\s*\$([0-9,]+)',
\* r'\$([0-9,]+)'
dollar_patterns ==
  << <<Lit(<<"$">>), Group(AmountClass), Star(WhiteSpace), Lit(Str("per")), Star(WhiteSpace),
       Lit(Str("year"))>>,
     <<Lit(<<"$">>), Group(AmountClass), Star(WhiteSpace), Lit(Str("annually"))>>,
     <<Lit(Str("up to")), Star(WhiteSpace), Lit(<<"$">>), Group(AmountClass)>>,
     <<Lit(<<"$">>), Group(AmountClass)>> >>

\* r'(\d+)%'
percentage_pattern == <<Group(DigitClass), Lit(<<"%">>)>>

RECURSIVE FirstDollarAmount(_, _, _)
\* the loop over dollar_patterns: the first amount that is at most the tuition,
\* -1 when there is none
FirstDollarAmount(amount_text_lower, annual_tuition, p) ==
  LET Try(amount) ==
        IF amount.ok /\ Dollars(amount.val) <= annual_tuition
        THEN Dollars(amount.val)
        ELSE FirstDollarAmount(amount_text_lower, annual_tuition, p + 1)
      Matched(match) ==
        IF match.ok THEN Try(FloatOf(amount_text_lower, match))
        ELSE FirstDollarAmount(amount_text_lower, annual_tuition, p + 1)
  IN  IF p > Len(dollar_patterns) THEN -1
      ELSE Matched(Search(amount_text_lower, dollar_patterns[p]))

\* scholarship_amount_annual with the dollar amounts tried before the percentage
scholarship_amount_annual_dollar_first(scholarship_amount_text, annual_tuition) ==
  LET Percentage(amount_text_lower, percentage_match) ==
        IF percentage_match.ok
        THEN (annual_tuition * FloatOf(amount_text_lower, percentage_match).val) \div 100
        ELSE annual_tuition \div 2
      Dollar(amount_text_lower, amount) ==
        IF amount >= 0 THEN amount
        ELSE Percentage(amount_text_lower, Search(amount_text_lower, percentage_pattern))
      Amount(amount_text_lower) ==
        IF \/ Contains(amount_text_lower, Str("full tuition"))
           \/ Contains(amount_text_lower, Str("full scholarship"))
           \/ Contains(amount_text_lower, Str("100%"))
        THEN annual_tuition
        ELSE Dollar(amount_text_lower, FirstDollarAmount(amount_text_lower, annual_tuition, 1))
  IN  Amount(Lower(scholarship_amount_text))

\* the annual scholarship amount; the total is the annual amount * duration in
\* every branch
scholarship_amount_annual(scholarship_amount_text, annual_tuition) ==
  LET Dollar(amount) ==
        IF amount >= 0 THEN amount
        ELSE \* annual_tuition * 0.5
             annual_tuition \div 2
      Percentage(amount_text_lower, percentage_match) ==
        IF percentage_match.ok
        THEN \* annual_tuition * (float(group 1) / 100): a whole number of cents, the
             \* tuition being a whole number of dollars
             (annual_tuition * FloatOf(amount_text_lower, percentage_match).val) \div 100
        ELSE Dollar(FirstDollarAmount(amount_text_lower, annual_tuition, 1))
      Amount(amount_text_lower) ==
        IF \/ Contains(amount_text_lower, Str("full tuition"))
           \/ Contains(amount_text_lower, Str("full scholarship"))
           \/ Contains(amount_text_lower, Str("100%"))
        THEN annual_tuition
        ELSE Percentage(amount_text_lower, Search(amount_text_lower, percentage_pattern))
  IN  Amount(Lower(scholarship_amount_text))

calculate_scholarship_amounts(scholarship_amount_text, annual_tuition, duration) ==
  LET Both(annual) == [annual |-> annual, total |-> annual * duration]
  IN  Both(scholarship_amount_annual(scholarship_amount_text, annual_tuition))

\* the prefixes of aid_patterns and of loan_patterns; each is followed by
\* r'[:\s]*\$?([0-9,]+)'
aid_patterns ==
  << <<Lit(Str("government")), Star(WhiteSpace), Lit(Str("aid"))>>,
     <<Lit(Str("federal")), Star(WhiteSpace), Lit(Str("aid"))>>,
     <<Lit(Str("grant"))>>,
     <<Lit(Str("pell")), Star(WhiteSpace), Lit(Str("grant"))>> >>

loan_patterns ==
  << <<Lit(Str("student")), Star(WhiteSpace), Lit(Str("loan"))>>,
     <<Lit(Str("government")), Star(WhiteSpace), Lit(Str("loan"))>>,
     <<Lit(Str("federal")), Star(WhiteSpace), Lit(Str("loan"))>> >>

AmountTail == <<Star(SepClass), Opt("$"), Group(AmountClass)>>

RECURSIVE MaxAmount(_, _, _)
\* the loop over patterns: the largest amount the patterns find, 0 at least
MaxAmount(text_lower, patterns, p) ==
  LET Larger(found, rest) ==
        IF found.ok /\ Dollars(found.val) > rest THEN Dollars(found.val) ELSE rest
      Matched(match, rest) ==
        IF match.ok THEN Larger(FloatOf(text_lower, match), rest) ELSE rest
  IN  IF p > Len(patterns) THEN 0
      ELSE Matched(Search(text_lower, patterns[p] \o AmountTail),
                   MaxAmount(text_lower, patterns, p + 1))

parse_government_aid_from_text(text) ==
  LET Parse(text_lower) ==
        [aid |-> MaxAmount(text_lower, aid_patterns, 1),
         loan |-> MaxAmount(text_lower, loan_patterns, 1)]
  IN  Parse(Lower(text))

\* country, aid, loan
aid_estimates ==
  << <<Str("usa"), 6000, 12000>>, <<Str("united states"), 6000, 12000>>,
     <<Str("canada"), 3000, 8000>>, <<Str("uk"), 0, 10000>>,
     <<Str("australia"), 0, 7000>>, <<Str("germany"), 500, 5000>>,
     <<Str("france"), 400, 4000>>, <<Str("netherlands"), 300, 6000>> >>

estimate_government_aid_by_location(location) ==
  LET Estimate(k) ==
        IF k = 0 THEN [aid |-> 0, loan |-> 0]
        ELSE [aid |-> Dollars(aid_estimates[k][2]), loan |-> Dollars(aid_estimates[k][3])]
  IN  Estimate(FirstKeyIn(aid_estimates, Lower(location)))

RECURSIVE extract_government_aid(_, _)
extract_government_aid(location, search_results) ==
  LET Found(found) ==
        IF found.aid > 0 \/ found.loan > 0 THEN found
        ELSE extract_government_aid(location, Tail(search_results))
  IN  IF search_results = <<>>
      THEN estimate_government_aid_by_location(location)
      ELSE Found(parse_government_aid_from_text(Head(search_results)))

\* living_costs with the entries of the countries only
living_costs_of_countries ==
  << <<Str("usa"), 15000>>, <<Str("united states"), 15000>>, <<Str("canada"), 12000>>,
     <<Str("uk"), 12000>>, <<Str("australia"), 18000>>, <<Str("germany"), 10000>>,
     <<Str("france"), 9000>>, <<Str("netherlands"), 11000>>, <<Str("singapore"), 14000>>,
     <<Str("japan"), 12000>> >>

\* living_costs.items(): the (place, cost) tuples in insertion order
living_costs ==
  << <<Str("usa"), 15000>>, <<Str("united states"), 15000>>, <<Str("new york"), 20000>>,
     <<Str("california"), 18000>>, <<Str("canada"), 12000>>, <<Str("toronto"), 15000>>,
     <<Str("vancouver"), 16000>>, <<Str("uk"), 12000>>, <<Str("london"), 15000>>,
     <<Str("australia"), 18000>>, <<Str("sydney"), 20000>>, <<Str("melbourne"), 18000>>,
     <<Str("germany"), 10000>>, <<Str("berlin"), 12000>>, <<Str("munich"), 14000>>,
     <<Str("france"), 9000>>, <<Str("paris"), 12000>>, <<Str("netherlands"), 11000>>,
     <<Str("amsterdam"), 13000>>, <<Str("singapore"), 14000>>, <<Str("japan"), 12000>>,
     <<Str("tokyo"), 15000>> >>

\* the place of x in a list sorted by len, longest first: behind every item that
\* is as long or longer
InsertByLen(sorted, x) ==
  LET At(pos) == SubSeq(sorted, 1, pos) \o <<x>> \o SubSeq(sorted, pos + 1, Len(sorted))
  IN  At(Cardinality({i \in 1..Len(sorted) : Len(sorted[i]) >= Len(x)}))

RECURSIVE SortedByLen(_)
\* sorted(items, key=len, reverse=True): the sort is stable, and len of an item is
\* the length of the (place, cost) tuple
SortedByLen(items) ==
  IF items = <<>> THEN <<>>
  ELSE InsertByLen(SortedByLen(SubSeq(items, 1, Len(items) - 1)), items[Len(items)])

DefaultLivingCost == 12000

\* the item of living_costs at which the loop of _estimate_living_costs returns,
\* the default when no place is in the location
living_costs_item(location) ==
  LET Visit(items) ==
        LET Item(k) == IF k = 0 THEN <<None, DefaultLivingCost>> ELSE items[k]
        IN  Item(FirstKeyIn(items, Lower(location)))
  IN  Visit(SortedByLen(living_costs))

estimate_living_costs(location) == Dollars(living_costs_item(location)[2])

\* net_annual_cost without the lower bound of 0
net_annual_cost_unbounded(annual_tuition, total_annual_aid) ==
  annual_tuition - total_annual_aid

\* max(0, annual_tuition - total_annual_aid)
net_annual_cost(annual_tuition, total_annual_aid) ==
  IF annual_tuition - total_annual_aid > 0 THEN annual_tuition - total_annual_aid ELSE 0

\* whether _calculate_individual_breakdown raises inside its try: .lower() of a
\* value that is None, or a str field of FinancialBreakdown that is given None
BreakdownRaises(scholarship, student) ==
  \/ Get(scholarship, "university", Str("Unknown University")) = None
  \/ Get(student, "target_field", Str("Unknown Field")) = None
  \/ Get(student, "target_location", Str("Unknown Location")) = None
  \/ Get(student, "academic_level", Str("undergraduate")) = None
  \/ Get(scholarship, "scholarship_amount", Str("")) = None
  \/ Get(scholarship, "scholarship_name", Str("Unknown Scholarship")) = None

\* the FinancialBreakdown _calculate_individual_breakdown returns when it does not
\* raise
FinancialBreakdown(scholarship, student, search_results) ==
  LET Costs(b, net_annual) ==
        [b EXCEPT !.net_annual_cost = net_annual,
                  !.total_net_cost = net_annual * b.program_duration_years,
                  !.total_estimated_cost =
                     net_annual * b.program_duration_years
                     + b.estimated_living_cost_annual * b.program_duration_years]
      Net(b) ==
        Costs(b, net_annual_cost(b.annual_tuition,
                                 b.scholarship_amount_annual + b.government_aid_annual
                                 + b.government_loan_annual))
      Aid(university, field, annual_tuition, program_duration, amounts, gov, living) ==
        Net([scholarship_name |-> Get(scholarship, "scholarship_name", Str("Unknown Scholarship")),
             university |-> university,
             program_field |-> field,
             annual_tuition |-> annual_tuition,
             program_duration_years |-> program_duration,
             total_tuition |-> annual_tuition * program_duration,
             scholarship_amount_annual |-> amounts.annual,
             scholarship_total |-> amounts.total,
             government_aid_annual |-> gov.aid,
             government_loan_annual |-> gov.loan,
             net_annual_cost |-> 0,
             total_net_cost |-> 0,
             estimated_living_cost_annual |-> living,
             total_estimated_cost |-> 0])
      Tuition(university, field, target_location, annual_tuition, program_duration) ==
        Aid(university, field, annual_tuition, program_duration,
            calculate_scholarship_amounts(Get(scholarship, "scholarship_amount", Str("")),
                                          annual_tuition, program_duration),
            extract_government_aid(target_location, search_results),
            estimate_living_costs(target_location))
      Basic(university, field, target_location) ==
        Tuition(university, field, target_location,
                extract_tuition_cost(university, field, target_location, search_results),
                estimate_program_duration(Get(student, "academic_level", Str("undergraduate"))))
  IN  Basic(Get(scholarship, "university", Str("Unknown University")),
            Get(student, "target_field", Str("Unknown Field")),
            Get(student, "target_location", Str("Unknown Location")))

\* the outcome of one call of _calculate_individual_breakdown: None when it raised
calculate_individual_breakdown(scholarship, student, search_results) ==
  IF BreakdownRaises(scholarship, student)
  THEN [raised |-> TRUE, breakdown |-> None, place |-> None]
  ELSE [raised |-> FALSE,
        breakdown |-> FinancialBreakdown(scholarship, student, search_results),
        \* the place at which the loop of _estimate_living_costs returned
        place |-> living_costs_item(Get(student, "target_location",
                                        Str("Unknown Location")))[1]]

\* the place x takes in a list sorted by total_net_cost, lowest first: behind every
\* entry that costs as much or less
\* InsertByCost placing x before the entries of equal cost
InsertByCostBeforeEqual(sorted, x) ==
  LET At(pos) == SubSeq(sorted, 1, pos) \o <<x>> \o SubSeq(sorted, pos + 1, Len(sorted))
  IN  At(Cardinality({i \in 1..Len(sorted) : sorted[i].total_net_cost < x.total_net_cost}))

InsertByCost(sorted, x) ==
  LET At(pos) == SubSeq(sorted, 1, pos) \o <<x>> \o SubSeq(sorted, pos + 1, Len(sorted))
  IN  At(Cardinality({i \in 1..Len(sorted) : sorted[i].total_net_cost <= x.total_net_cost}))

RECURSIVE SortByCost(_)
\* breakdowns.sort(key=lambda x: x.total_net_cost): the sort is stable
SortByCost(list) ==
  IF list = <<>> THEN <<>>
  ELSE InsertByCost(SortByCost(SubSeq(list, 1, Len(list) - 1)), list[Len(list)])

RECURSIVE SumCosts(_)
SumCosts(list) == IF list = <<>> THEN 0 ELSE Head(list).total_net_cost + SumCosts(Tail(list))

MinCost(breakdowns) ==
  Least({breakdowns[i].total_net_cost : i \in 1..Len(breakdowns)})

MaxCost(breakdowns) ==
  CHOOSE c \in {breakdowns[i].total_net_cost : i \in 1..Len(breakdowns)} :
    \A i \in 1..Len(breakdowns) : c >= breakdowns[i].total_net_cost

\* the number of breakdowns with lo <= total_net_cost < hi, in dollars; hi = 0 for
\* no upper limit
CountCost(breakdowns, lo, hi) ==
  Cardinality({i \in 1..Len(breakdowns) :
                 /\ Dollars(lo) <= breakdowns[i].total_net_cost
                 /\ hi = 0 \/ breakdowns[i].total_net_cost < Dollars(hi)})

LowCost == 20000
HighCost == 50000

\* the figures _generate_financial_summary puts into its sentences; f'{x:,.0f}' is
\* x rounded to whole dollars
generate_financial_summary(breakdowns) ==
  IF breakdowns = <<>>
  THEN [text |-> "No financial information available for the scholarships."]
  ELSE [text |-> "Analyzed",
        analyzed |-> Len(breakdowns),
        min_cost |-> RoundHalfEven(MinCost(breakdowns), 100),
        max_cost |-> RoundHalfEven(MaxCost(breakdowns), 100),
        avg_net_cost |-> RoundHalfEven(SumCosts(breakdowns), 100 * Len(breakdowns)),
        fully_funded |-> Cardinality({i \in 1..Len(breakdowns) :
                                        breakdowns[i].total_net_cost = 0}),
        low_cost |-> CountCost(breakdowns, 0, LowCost),
        medium_cost |-> CountCost(breakdowns, LowCost, HighCost),
        high_cost |-> CountCost(breakdowns, HighCost, 0)]

MinimalFunding == 10000
SignificantAverage == 30000
StrongProfile == 8
WeakProfile == 6

generate_funding_recommendations(breakdowns, student) ==
  LET Recommend(min_cost, target_location, profile_score) ==
        (IF min_cost = 0
         THEN <<"Prioritize fully-funded scholarships to minimize financial burden.">>
         ELSE IF min_cost < Dollars(MinimalFunding)
         THEN <<"Focus on low-cost options that require minimal additional funding.">>
         ELSE <<"Consider additional funding sources as all options require significant investment.">>)
        \o (IF SumCosts(breakdowns) > Dollars(SignificantAverage) * Len(breakdowns)
            THEN <<"Explore additional scholarships and grants to reduce costs.",
                   "Consider part-time work or teaching assistantships while studying.",
                   "Look into education loans with favorable terms.">>
            ELSE <<>>)
        \o (IF \/ Contains(target_location, Str("usa"))
               \/ Contains(target_location, Str("united states"))
            THEN <<"Apply for FAFSA to access federal aid programs.">>
            ELSE IF Contains(target_location, Str("canada"))
            THEN <<"Investigate provincial student aid programs.">>
            ELSE IF Contains(target_location, Str("uk"))
            THEN <<"Consider UK student loan programs for international students.">>
            ELSE <<>>)
        \o (IF profile_score >= StrongProfile
            THEN <<"Your strong profile qualifies you for merit-based scholarships.">>
            ELSE IF profile_score < WeakProfile
            THEN <<"Focus on improving your profile to qualify for more scholarships.">>
            ELSE <<>>)
  IN  IF breakdowns = <<>>
      THEN <<"Unable to provide funding recommendations without financial data.">>
      ELSE Recommend(MinCost(breakdowns),
                     Lower(Get(student, "target_location", Str(""))),
                     Get(student, "profile_score", DefaultProfileScore))

\* the successful elements of calls, in order
Appended(calls) ==
  LET Values(appended) == [k \in 1..Len(appended) |-> appended[k].breakdown]
  IN  Values(SelectSeq(calls, LAMBDA c : ~c.raised))

\* the body of financial_calculation_tool: the outcome of every call of
\* _calculate_individual_breakdown, and the output
financial_calculation_tool(matched, student, search_results) ==
  LET Output(breakdowns) ==
        [financial_breakdowns |-> breakdowns,
         best_financial_options |-> Take(breakdowns, TopN),
         financial_summary |-> generate_financial_summary(breakdowns),
         funding_recommendations |-> generate_funding_recommendations(breakdowns, student)]
      Result(calls) == [calls |-> calls, output |-> Output(SortByCost(Appended(calls)))]
  IN  Result([i \in 1..Len(matched) |->
                calculate_individual_breakdown(matched[i], student, search_results)])

(***************************************************************************)
(* scholarship_analysis_tool.py                                            *)
(*                                                                         *)
(* Of the thirteen fields of ScholarshipInfo the model keeps name,         *)
(* target_age_group and target_gender; the extractors of the others read   *)
(* the section only and raise for no str.                                  *)
(***************************************************************************)
\* the greatest element of a non-empty set of numbers
Greatest(S) == CHOOSE i \in S : \A j \in S : i >= j

\* s.strip()
Strip(s) ==
  LET Cut(inked) == IF inked = {} THEN <<>> ELSE SubSeq(s, Least(inked), Greatest(inked))
  IN  Cut({i \in 1..Len(s) : s[i] \notin WhiteSpace})

\* [A-Z], and [a-z]: what [A-Z] is under re.IGNORECASE once the text is lower-cased
UpperClass == DOMAIN ToLower
LowerClass == {LowerCase[k] : k \in 1..Len(LowerCase)}
\* [a-zA-Z\s]
TitleClass == UpperClass \cup LowerClass \cup WhiteSpace

\* the end of the match of [first][a-zA-Z\s]+(?:word|...) at s[i], 0 when there is
\* none.  The words are of letters, so a word lies within the run of [a-zA-Z\s]
\* behind s[i]; the greedy + gives back as little as it must, so the word of the
\* match is the last one that starts in the run and leaves the + a character.
TitleEnd(s, i, first, words) ==
  LET Word(p) == words[Least({k \in 1..Len(words) : StartsAt(s, p, words[k])})]
      End(p) == p + Len(Word(p)) - 1
      Last(starts) == IF starts = {} THEN 0 ELSE End(Greatest(starts))
      Run(run_end) ==
        Last({p \in (i + 2)..run_end : \E k \in 1..Len(words) : StartsAt(s, p, words[k])})
  IN  IF i <= Len(s) /\ s[i] \in first THEN Run(ClassEnd(s, i + 1, TitleClass)) ELSE 0

\* the delimiters, as they match a lower-cased section (re.IGNORECASE):
\* r'\n\n\d+\.', r'\n\n[A-Z][a-zA-Z\s]+Scholarship', the bullet as the source
\* spells it, r'\n\n-', r'Scholarship Name:', r'Award:', r'Eligibility:'.  The
\* three characters of the bullet are none of ASCII and stand here by their names.
delimiters ==
  << [k |-> "numbered", s |-> <<"\n", "\n">>],
     [k |-> "title", s |-> <<"\n", "\n">>],
     [k |-> "lit", s |-> <<"\n", "\n", "a circumflex", "euro sign", "cent sign">>],
     [k |-> "lit", s |-> <<"\n", "\n", "-">>],
     [k |-> "lit", s |-> Str("scholarship name:")],
     [k |-> "lit", s |-> Str("award:")],
     [k |-> "lit", s |-> Str("eligibility:")] >>

\* the end of the match of delimiter d at section_lower[i], 0 when there is none
DelimiterEnd(section_lower, i, d) ==
  LET Numbered(digits_end) ==
        IF /\ digits_end >= i + Len(d.s)
           /\ digits_end < Len(section_lower)
           /\ section_lower[digits_end + 1] = "."
        THEN digits_end + 1 ELSE 0
  IN  IF ~StartsAt(section_lower, i, d.s) THEN 0
      ELSE CASE d.k = "lit" -> i + Len(d.s) - 1
             [] d.k = "numbered" ->
                  Numbered(ClassEnd(section_lower, i + Len(d.s), DigitClass))
             [] d.k = "title" ->
                  TitleEnd(section_lower, i + Len(d.s), LowerClass, <<Str("scholarship")>>)

RECURSIVE SplitFrom(_, _, _)
\* the pieces of section[from..] between the matches, leftmost first, a match
\* starting no earlier than the end of the one before it; ends[i] is the end of the
\* match at i
SplitFrom(section, ends, from) ==
  LET Cut(at) == <<SubSeq(section, from, at - 1)>> \o SplitFrom(section, ends, ends[at] + 1)
      Next(starts) == IF starts = {} THEN <<SubSeq(section, from, Len(section))>>
                      ELSE Cut(Least(starts))
  IN  Next({i \in from..Len(section) : ends[i] > 0})

\* re.split(delimiter, section, flags=re.IGNORECASE)
re_split(section, d) ==
  LET Ends(section_lower) ==
        [i \in 1..Len(section) |-> DelimiterEnd(section_lower, i, d)]
  IN  SplitFrom(section, Ends(Lower(section)), 1)

\* [s.strip() for s in splits if s.strip()]
StrippedPieces(splits) ==
  SelectSeq([k \in 1..Len(splits) |-> Strip(splits[k])], LAMBDA s : s # <<>>)

RECURSIVE NewSections(_, _)
\* new_sections of one delimiter
NewSections(sections, d) ==
  IF sections = <<>> THEN <<>>
  ELSE StrippedPieces(re_split(Head(sections), d)) \o NewSections(Tail(sections), d)

RECURSIVE SectionsAfter(_, _)
\* sections after the first n delimiters
SectionsAfter(content, n) ==
  IF n = 0 THEN <<content>>
  ELSE NewSections(SectionsAfter(content, n - 1), delimiters[n])

MinSectionLen == 100

\* a filter that keeps the sections of MinSectionLen characters too
LongEnoughOrEqual(s) == Len(s) >= MinSectionLen

\* len(s) > 100
LongEnough(s) == Len(s) > MinSectionLen

split_into_scholarship_sections(content) ==
  SelectSeq(SectionsAfter(content, Len(delimiters)), LongEnough)

\* the end of the line of s[i]
LineEnd(s, i) == Least({j \in i..(Len(s) + 1) : j = Len(s) + 1 \/ s[j] = "\n"}) - 1

\* match.group(1).strip() of re.search(r'([A-Z][a-zA-Z\s]+Scholarship)', section)
\* and, with at_line_start, of r'^([A-Z][a-zA-Z\s]+(?:Award|Grant|Fellowship))'
\* under re.MULTILINE; '' when there is no match
TitleName(section, words, at_line_start) ==
  LET Name(i) == Strip(SubSeq(section, i, TitleEnd(section, i, UpperClass, words)))
      First(starts) == IF starts = {} THEN <<>> ELSE Name(Least(starts))
  IN  First({i \in 1..Len(section) :
               /\ ~at_line_start \/ i = 1 \/ section[i - 1] = "\n"
               /\ TitleEnd(section, i, UpperClass, words) > 0})

\* match.group(1).strip() of re.search(label + r'\s*([^\n]+)', section): the rest
\* of the line of the first character behind label that is no whitespace.  ''
\* when there is no match, and when \s* reaches the end of the section: the
\* group is then of whitespace, if there is a match.
FieldAfter(section, label) ==
  LET Rest(from) == IF from > Len(section) THEN <<>>
                     ELSE Strip(SubSeq(section, from, LineEnd(section, from)))
      At(i) == Rest(ClassEnd(section, i + Len(label), WhiteSpace) + 1)
      First(starts) == IF starts = {} THEN <<>> ELSE At(Least(starts))
  IN  First({i \in 1..Len(section) : StartsAt(section, i, label)})

\* any(keyword in text for keyword in keywords)
AnyKeyword(text, keywords) == \E k \in 1..Len(keywords) : Contains(text, keywords[k])

\* the name of each of the four patterns, in order
name_patterns(section) ==
  << TitleName(section, <<Str("Scholarship")>>, FALSE),
     FieldAfter(section, Str("Scholarship Name:")),
     FieldAfter(section, Str("Name:")),
     TitleName(section, <<Str("Award"), Str("Grant"), Str("Fellowship")>>, TRUE) >>

MinNameLen == 5
MaxTitleLen == 100

extract_scholarship_name(section) ==
  LET Fallback(first_line) ==
        IF /\ Len(first_line) < MaxTitleLen
           /\ AnyKeyword(Lower(first_line), <<Str("scholarship"), Str("award"), Str("grant")>>)
        THEN first_line ELSE None
      Chosen(names) == IF names = <<>>
                       THEN Fallback(Strip(SubSeq(section, 1, LineEnd(section, 1))))
                       ELSE Head(names)
  IN  Chosen(SelectSeq(name_patterns(section),
                       LAMBDA name : /\ Len(name) > MinNameLen
                                     /\ Contains(Lower(name), Str("scholarship"))))

extract_target_age_group(section) ==
  LET AgeGroup(section_lower) ==
        IF AnyKeyword(section_lower, <<Str("undergraduate"), Str("bachelor"), Str("first year")>>)
        THEN Str("18-22")
        ELSE IF AnyKeyword(section_lower, <<Str("graduate"), Str("master"), Str("postgraduate")>>)
        THEN Str("23-26")
        ELSE IF AnyKeyword(section_lower, <<Str("phd"), Str("doctorate"), Str("doctoral")>>)
        THEN Str("25-30")
        ELSE IF AnyKeyword(section_lower, <<Str("high school"), Str("secondary")>>)
        THEN Str("under_18")
        ELSE Str("all")
  IN  AgeGroup(Lower(section))

extract_target_gender(section) ==
  LET Gender(section_lower) ==
        IF AnyKeyword(section_lower, <<Str("women"), Str("female"), Str("girls")>>)
        THEN Str("female")
        ELSE IF AnyKeyword(section_lower, <<Str("men"), Str("male"), Str("boys")>>)
        THEN Str("male")
        ELSE None
  IN  Gender(Lower(section))

\* what _parse_scholarship_section returns: None when the section has no name,
\* else the ScholarshipInfo
parse_scholarship_section(section) ==
  LET Info(name) ==
        IF name = None THEN [is_none |-> TRUE, scholarship |-> None]
        ELSE [is_none |-> FALSE,
              scholarship |-> [name |-> name,
                               target_age_group |-> extract_target_age_group(section),
                               target_gender |-> extract_target_gender(section)]]
  IN  Info(extract_scholarship_name(section))

\* normalized_name without re.sub
normalized_name_uncollapsed(name) == Strip(Lower(name))

\* re.sub(r'\s+', ' ', scholarship.name.lower().strip())
normalized_name(name) ==
  LET Kept(x, at) == [k \in 1..Len(at) |-> IF x[at[k]] \in WhiteSpace THEN " " ELSE x[at[k]]]
      Sub(x) == Kept(x, SelectSeq([i \in 1..Len(x) |-> i],
                                  LAMBDA i : \/ x[i] \notin WhiteSpace
                                             \/ i = 1
                                             \/ x[i - 1] \notin WhiteSpace))
  IN  Sub(Strip(Lower(name)))

RECURSIVE UniqueScholarships(_, _)
\* the loop of _remove_duplicate_scholarships from seen_names on
UniqueScholarships(scholarships, seen_names) ==
  LET Visit(name) ==
        IF name \in seen_names
        THEN UniqueScholarships(Tail(scholarships), seen_names)
        ELSE <<Head(scholarships)>>
             \o UniqueScholarships(Tail(scholarships), seen_names \cup {name})
  IN  IF scholarships = <<>> THEN <<>>
      ELSE Visit(normalized_name(Head(scholarships).name))

\* unique_scholarships = [] and seen_names = set() are made by every call
remove_duplicate_scholarships(scholarships) == UniqueScholarships(scholarships, {})

\* the figures of _generate_analysis_summary that rest on the fields kept
generate_analysis_summary(scholarships) ==
  IF scholarships = <<>> THEN [text |-> "No scholarships found"]
  ELSE [text |-> "Found",
        found |-> Len(scholarships),
        gender_specific |-> Cardinality({k \in 1..Len(scholarships) :
                                           scholarships[k].target_gender # None})]

\* one turn of the loop of scholarship_analysis_tool: the sections
\* _split_into_scholarship_sections returns, what _parse_scholarship_section
\* returns for each, and extracted_scholarships
extract_scholarships_from_content(content) ==
  LET Scholarships(appended) == [k \in 1..Len(appended) |-> appended[k].scholarship]
      Extracted(sections, parsed) ==
        [skipped |-> FALSE, sections |-> sections, parsed |-> parsed,
         extracted |-> Scholarships(SelectSeq(parsed, LAMBDA r : ~r.is_none))]
      Parsed(sections) ==
        Extracted(sections,
                  [k \in 1..Len(sections) |-> parse_scholarship_section(sections[k])])
  IN  Parsed(split_into_scholarship_sections(content))

RECURSIVE Extended(_)
\* scholarships after the loop
Extended(calls) ==
  IF calls = <<>> THEN <<>> ELSE Head(calls).extracted \o Extended(Tail(calls))

\* the body of scholarship_analysis_tool: every turn of its loop, and the output
scholarship_analysis_tool(results) ==
  LET Output(scholarships) ==
        [scholarships |-> scholarships,
         analysis_summary |-> generate_analysis_summary(scholarships),
         total_scholarships_found |-> Len(scholarships)]
      Result(calls) ==
        [calls |-> calls, output |-> Output(remove_duplicate_scholarships(Extended(calls)))]
      Turn(content) ==
        IF Strip(content) = <<>>
        THEN [skipped |-> TRUE, sections |-> <<>>, parsed |-> <<>>, extracted |-> <<>>]
        ELSE extract_scholarships_from_content(content)
  IN  Result([i \in 1..Len(results) |-> Turn(results[i])])

(***************************************************************************)
(* student_classification_tool.py                                          *)
(*                                                                         *)
(* Of the eleven fields of ClassifiedStudent the model keeps target_field, *)
(* target_location, certificates_list, extracurricular_list and            *)
(* profile_score; the extractors of the others read the profile only.      *)
(***************************************************************************)
\* the text group 1 of a match takes
GroupText(s, g) == SubSeq(s, g.from, g.to)

\* name\s*:?\s* followed by group 1
ScorePattern(name, group) ==
  <<Lit(Str(name)), Star(WhiteSpace), Opt(":"), Star(WhiteSpace), group>>

\* cert_patterns, in insertion order, with cert_name.upper()
cert_patterns ==
  <<[name |-> "ielts", upper |-> "IELTS", pattern |-> ScorePattern("ielts", DecimalGroup)],
    [name |-> "toefl", upper |-> "TOEFL", pattern |-> ScorePattern("toefl", Group(DigitClass))],
    [name |-> "sat", upper |-> "SAT", pattern |-> ScorePattern("sat", Group(DigitClass))],
    [name |-> "gre", upper |-> "GRE", pattern |-> ScorePattern("gre", Group(DigitClass))],
    [name |-> "gmat", upper |-> "GMAT", pattern |-> ScorePattern("gmat", Group(DigitClass))]>>

NoCertificates == Str("No international certificates mentioned")

\* the entry cert_list gets for one certificate: none, its name, or name and score
CertEntry(certs_lower, cert) ==
  LET Entry(match) ==
        IF match.ok
        THEN <<Str(cert.upper) \o Str(": ") \o GroupText(certs_lower, match)>>
        ELSE IF Contains(certs_lower, Str(cert.name)) THEN <<Str(cert.upper)>>
        ELSE <<>>
  IN  Entry(Search(certs_lower, cert.pattern))

RECURSIVE CertEntries(_, _)
\* cert_list after the first n patterns
CertEntries(certs_lower, n) ==
  IF n = 0 THEN <<>>
  ELSE CertEntries(certs_lower, n - 1) \o CertEntry(certs_lower, cert_patterns[n])

\* the list as it is, empty when nothing was found
OrEmpty(list, sentinel) == list

\* the list a sentinel stands in for when it is empty
OrSentinel(list, sentinel) == IF list = <<>> THEN <<sentinel>> ELSE list

extract_certificates(certificates) ==
  OrSentinel(CertEntries(Lower(certificates), Len(cert_patterns)), NoCertificates)

\* activity_keywords, in insertion order, with category.replace('_', ' ').title()
activity_keywords ==
  <<[title |-> "Volunteer",
     keywords |-> <<Str("volunteer"), Str("community service"), Str("charity")>>],
    [title |-> "Sports",
     keywords |-> <<Str("sport"), Str("football"), Str("basketball"), Str("swimming")>>],
    [title |-> "Arts",
     keywords |-> <<Str("music"), Str("art"), Str("drama"), Str("dance")>>],
    [title |-> "Leadership",
     keywords |-> <<Str("club"), Str("society"), Str("president"), Str("organizer")>>],
    [title |-> "Academic Clubs",
     keywords |-> <<Str("debate"), Str("science club"), Str("math olympiad")>>]>>

NoActivities == Str("Limited extracurricular activities mentioned")

RECURSIVE Categories(_, _, _)
\* the titles of the first n categories of table that have a keyword in text
Categories(text, table, n) ==
  IF n = 0 THEN <<>>
  ELSE Categories(text, table, n - 1)
         \o (IF AnyKeyword(text, table[n].keywords) THEN <<Str(table[n].title)>> ELSE <<>>)

extract_extracurricular(extracurricular) ==
  OrSentinel(Categories(Lower(extracurricular), activity_keywords, Len(activity_keywords)),
             NoActivities)

BaseProfileScore == 5
MaxProfileScore == 10
SubstantialLen == 50

\* the GPA bands 3.8, 3.5, 3.0 and the points each adds
gpa_bands ==
  <<[gpa |-> [ok |-> TRUE, m |-> 38, e |-> 1], points |-> 3],
    [gpa |-> [ok |-> TRUE, m |-> 35, e |-> 1], points |-> 2],
    [gpa |-> [ok |-> TRUE, m |-> 30, e |-> 1], points |-> 1]>>

\* r'gpa\s*:?\s*(\d+\.?\d*)'
gpa_pattern == ScorePattern("gpa", DecimalGroup)

\* the academic component: the points of the first band the GPA reaches
AcademicPoints(academic_lower) ==
  LET Band(gpa) ==
        LET Reached(bands) == IF bands = {} THEN 0 ELSE gpa_bands[Least(bands)].points
        IN  Reached({b \in 1..Len(gpa_bands) : NumGeq(gpa, gpa_bands[b].gpa)})
      Points(gpa_match) ==
        IF gpa_match.ok THEN Band(DecimalAt(academic_lower, gpa_match.from)) ELSE 0
  IN  IF Contains(academic_lower, Str("gpa"))
      THEN Points(Search(academic_lower, gpa_pattern))
      ELSE 0

\* the certificates component
CertificatePoints(certs_lower) ==
  IF AnyKeyword(certs_lower, <<Str("ielts"), Str("toefl"), Str("sat"), Str("gre")>>) THEN 2
  ELSE IF Contains(certs_lower, Str("certificate")) THEN 1
  ELSE 0

\* the extracurricular component, were the text measured as it was given
ExtracurricularPointsUnstripped(extracurricular) ==
  IF Len(extracurricular) > SubstantialLen THEN 1 ELSE 0

\* the extracurricular component
ExtracurricularPoints(extracurricular) ==
  IF Len(Strip(extracurricular)) > SubstantialLen THEN 1 ELSE 0

calculate_profile_score(academic, certificates, extracurricular) ==
  LET Capped(score) == IF score < MaxProfileScore THEN score ELSE MaxProfileScore
  IN  Capped(BaseProfileScore + AcademicPoints(Lower(academic))
               + CertificatePoints(Lower(certificates))
               + ExtracurricularPoints(extracurricular))

\* the ClassifiedStudent of a StudentProfile
student_classification_tool(profile) ==
  [target_field |-> profile.target_field,
   target_location |-> profile.target_location,
   certificates_list |-> extract_certificates(profile.certificates),
   extracurricular_list |-> extract_extracurricular(profile.extracurricular),
   profile_score |-> calculate_profile_score(profile.academic_background,
                                             profile.certificates,
                                             profile.extracurricular)]

(***************************************************************************)
(* student_classification_tool.py: the age group and the gender            *)
(***************************************************************************)
\* the bands of _extract_age_group
age_group_of(age) ==
  IF age <= 18 THEN Str("under_18")
  ELSE IF age <= 22 THEN Str("18-22")
  ELSE IF age <= 25 THEN Str("23-25")
  ELSE IF age <= 30 THEN Str("26-30")
  ELSE Str("over_30")

\* the age group of a text that states no age
DefaultAgeGroup == Str("18-22")

\* what follows group 1 in r'(\d{1,2})\s*years?\s*old' and in r'(\d{1,2})\s*tuổi'
age_tails ==
  << <<Star(WhiteSpace), Lit(Str("year")), OptLit(Str("s")), Star(WhiteSpace),
       Lit(Str("old"))>>,
     <<Star(WhiteSpace), Lit(<<"t", "u", "ổ", "i">>)>> >>

\* r'age\s*:?\s*(\d{1,2})', the group being the first two digits of the run
age_prefix ==
  <<Lit(Str("age")), Star(WhiteSpace), Opt(":"), Star(WhiteSpace), Group(DigitClass)>>

NoAge == [ok |-> FALSE, age |-> 0]

\* re.search(r'(\d{1,2})' + tail, s): the leftmost place at which two digits and
\* the tail, or else one digit and the tail, match
AgeBefore(s, tail) ==
  LET Two(i) == /\ i < Len(s) /\ IsDigit(s[i]) /\ IsDigit(s[i + 1])
                /\ MatchAt(s, i + 2, tail).ok
      One(i) == IsDigit(s[i]) /\ MatchAt(s, i + 1, tail).ok
      From(i) == [ok |-> TRUE, age |-> IF Two(i) THEN IntOf(s, i, i + 1) ELSE IntOf(s, i, i)]
      At(starts) == IF starts = {} THEN NoAge ELSE From(Least(starts))
  IN  At({i \in 1..Len(s) : Two(i) \/ One(i)})

\* re.search(r'age\s*:?\s*(\d{1,2})', s)
AgeAfter(s) ==
  LET Found(g) == IF ~g.ok THEN NoAge
                  ELSE [ok |-> TRUE,
                        age |-> IntOf(s, g.from, IF g.to > g.from THEN g.from + 1 ELSE g.from)]
  IN  Found(Search(s, age_prefix))

extract_age_group(personal_info) ==
  LET Third(match) == IF match.ok THEN age_group_of(match.age) ELSE DefaultAgeGroup
      Second(lower, match) ==
        IF match.ok THEN age_group_of(match.age) ELSE Third(AgeBefore(lower, age_tails[2]))
      First(lower, match) ==
        IF match.ok THEN age_group_of(match.age) ELSE Second(lower, AgeAfter(lower))
      AgeGroup(lower) == First(lower, AgeBefore(lower, age_tails[1]))
  IN  AgeGroup(Lower(personal_info))

extract_gender(personal_info) ==
  LET Gender(personal_lower) ==
        IF AnyKeyword(personal_lower, <<Str("male"), Str("nam"), Str("boy"), Str("man")>>)
        THEN Str("male")
        ELSE IF AnyKeyword(personal_lower,
                           <<Str("female"), <<"n", "ữ">>, Str("girl"), Str("woman")>>)
        THEN Str("female")
        ELSE None
  IN  Gender(Lower(personal_info))

(***************************************************************************)
(* scholarship_analysis_tool.py: the list-valued extractors of a section   *)
(***************************************************************************)
\* name\s*(?:score\s*)?(?:of\s*)? followed by group 1
RequiredPattern(name, group) ==
  <<Lit(Str(name)), Star(WhiteSpace), OptLit(Str("score")), Star(WhiteSpace),
    OptLit(Str("of")), Star(WhiteSpace), group>>

\* gpa_patterns
gpa_patterns ==
  <<<<Lit(Str("gpa")), Star(WhiteSpace), OptLit(Str("of")), Star(WhiteSpace), DecimalGroup>>,
    <<Lit(Str("grade point average")), Star(WhiteSpace), OptLit(Str("of")),
      Star(WhiteSpace), DecimalGroup>>,
    <<Lit(Str("minimum")), Star(WhiteSpace), Lit(Str("gpa")), Star(WhiteSpace),
      DecimalGroup>>>>

StandardAcademic == Str("Standard academic performance")

RECURSIVE GpaRequirements(_, _)
\* requirements after the first n GPA patterns
GpaRequirements(section_lower, n) ==
  LET Entry(match) ==
        IF match.ok THEN <<Str("Minimum GPA: ") \o GroupText(section_lower, match)>>
        ELSE <<>>
  IN  IF n = 0 THEN <<>>
      ELSE GpaRequirements(section_lower, n - 1)
             \o Entry(Search(section_lower, gpa_patterns[n]))

extract_academic_requirements(section) ==
  LET Requirements(section_lower) ==
        GpaRequirements(section_lower, Len(gpa_patterns))
          \o (IF AnyKeyword(section_lower,
                            <<Str("honor"), Str("distinction"), Str("dean's list")>>)
              THEN <<Str("Academic honors required")>> ELSE <<>>)
          \o (IF AnyKeyword(section_lower, <<Str("top 10%"), Str("top ten percent")>>)
              THEN <<Str("Top 10% academic standing")>> ELSE <<>>)
  IN  OrSentinel(Requirements(Lower(section)), StandardAcademic)

\* the four certificates a section is searched for, in the order of the code
required_patterns ==
  <<[name |-> "ielts", upper |-> "IELTS", pattern |-> RequiredPattern("ielts", DecimalGroup)],
    [name |-> "toefl", upper |-> "TOEFL",
     pattern |-> RequiredPattern("toefl", Group(DigitClass))],
    [name |-> "sat", upper |-> "SAT", pattern |-> RequiredPattern("sat", Group(DigitClass))],
    [name |-> "gre", upper |-> "GRE", pattern |-> RequiredPattern("gre", Group(DigitClass))]>>

NoSpecificCertificates == Str("No specific certificates mentioned")

\* the entry certificates gets for one certificate: none, required, or a minimum
RequiredEntry(section_lower, cert) ==
  LET Entry(match) ==
        IF match.ok
        THEN <<Str(cert.upper) \o Str(": minimum ") \o GroupText(section_lower, match)>>
        ELSE IF Contains(section_lower, Str(cert.name))
        THEN <<Str(cert.upper) \o Str(" required")>>
        ELSE <<>>
  IN  Entry(Search(section_lower, cert.pattern))

RECURSIVE RequiredEntries(_, _)
\* certificates after the first n certificates
RequiredEntries(section_lower, n) ==
  IF n = 0 THEN <<>>
  ELSE RequiredEntries(section_lower, n - 1)
         \o RequiredEntry(section_lower, required_patterns[n])

extract_required_certificates(section) ==
  OrSentinel(RequiredEntries(Lower(section), Len(required_patterns)),
             NoSpecificCertificates)

\* activity_keywords of the parser, in insertion order, with activity.title()
required_activity_keywords ==
  <<[title |-> "Leadership",
     keywords |-> <<Str("leadership"), Str("president"), Str("captain"), Str("head")>>],
    [title |-> "Volunteer",
     keywords |-> <<Str("volunteer"), Str("community service"), Str("charity")>>],
    [title |-> "Research",
     keywords |-> <<Str("research"), Str("publication"), Str("thesis")>>],
    [title |-> "Sports",
     keywords |-> <<Str("sports"), Str("athletics"), Str("team")>>],
    [title |-> "Arts",
     keywords |-> <<Str("arts"), Str("music"), Str("drama"), Str("creative")>>]>>

NoSpecificExtracurricular == Str("No specific extracurricular requirements")

extract_required_extracurricular(section) ==
  OrSentinel(Categories(Lower(section), required_activity_keywords,
                        Len(required_activity_keywords)),
             NoSpecificExtracurricular)

(***************************************************************************)
(* Inputs of the matching tool                                             *)
(***************************************************************************)
\* the longest list of scholarships handed to a tool
MaxScholarships == 4

StrongStudent ==
  [region |-> Str("vietnam"), age_group |-> Str("18-22"), gender |-> Str("female"),
   religion |-> None, target_field |-> Str("engineering"),
   certificates_list |-> <<Str("IELTS: 7.5"), Str("TOEFL: 100"), Str("SAT: 1410"), Str("GRE: 320")>>,
   extracurricular_list |-> <<Str("Leadership"), Str("Volunteer")>>,
   profile_score |-> 9]

MidStudent ==
  [region |-> Str("other"), age_group |-> Str("23-25"),
   religion |-> Str("buddhist"), target_field |-> Str("computer science"),
   certificates_list |-> <<Str("IELTS: 6.5")>>,
   extracurricular_list |-> <<Str("Limited extracurricular activities mentioned")>>,
   profile_score |-> 6]

WeakStudent ==
  [region |-> Str("other"), age_group |-> Str("over_30"), gender |-> Str("male"),
   religion |-> Str("muslim"), target_field |-> Str("arts"),
   certificates_list |-> <<Str("No international certificates mentioned")>>,
   extracurricular_list |-> <<Str("Sports")>>,
   profile_score |-> 2]

Students == {StrongStudent, MidStudent, WeakStudent}

OpenMerit ==
  [name |-> Str("Open Merit Scholarship"), university |-> Str("Target University"),
   target_region |-> Str("all"), target_age_group |-> Str("all"),
   target_gender |-> None, target_religion |-> None, field_of_study |-> Str("all"),
   academic_requirements |-> <<Str("Minimum GPA: 3.5")>>,
   required_certificates |-> <<Str("No specific certificates mentioned")>>,
   required_extracurricular |-> <<Str("No specific extracurricular requirements")>>,
   scholarship_amount |-> Str("Full tuition coverage")]

GlobalTalent ==
  [name |-> Str("Global Talent Scholarship"), university |-> Str("Target University"),
   target_region |-> Str("international"), target_age_group |-> Str("all"),
   target_gender |-> None, target_religion |-> None, field_of_study |-> Str("all"),
   academic_requirements |-> <<Str("Academic honors required"), Str("Minimum GPA: 3.5")>>,
   required_certificates |-> <<Str("No specific certificates mentioned")>>,
   required_extracurricular |-> <<Str("No specific extracurricular requirements")>>,
   scholarship_amount |-> Str("Amount: 50% tuition")]

FourTests ==
  [name |-> Str("Four Tests Scholarship"), university |-> Str("Target University"),
   target_region |-> Str("international"), target_age_group |-> Str("18-22"),
   target_gender |-> Str("female"), target_religion |-> None,
   field_of_study |-> Str("engineering"),
   academic_requirements |-> <<Str("Minimum GPA: 3.5")>>,
   required_certificates |-> <<Str("IELTS: minimum 6.5"), Str("TOEFL: minimum 80"),
                               Str("SAT: minimum 1200"), Str("GRE: minimum 300")>>,
   required_extracurricular |-> <<Str("Leadership"), Str("Volunteer")>>,
   scholarship_amount |-> Str("Amount not specified")]

StrictLaw ==
  [name |-> Str("Strict Law Scholarship"), university |-> Str("Target University"),
   target_region |-> Str("europe"), target_age_group |-> Str("25-30"),
   target_gender |-> Str("male"), target_religion |-> Str("christian"),
   field_of_study |-> Str("law"),
   academic_requirements |-> <<Str("Minimum GPA: 3.9")>>,
   required_certificates |-> <<Str("IELTS: minimum 7.0"), Str("GRE: minimum 330")>>,
   required_extracurricular |-> <<Str("Research"), Str("Sports"), Str("Arts"), Str("Leadership")>>,
   scholarship_amount |-> Str("Amount: 50% tuition")]

\* a map whose target_region is None
BrokenRecord ==
  [name |-> Str("Broken Record Scholarship"), target_region |-> None]

\* a map with no key at all
EmptyMap == <<>>

ScholarshipMaps == {OpenMerit, GlobalTalent, FourTests, StrictLaw, BrokenRecord, EmptyMap}

\* the lists of at most n elements of S
ListsOf(S, n) == UNION {[1..k -> S] : k \in 0..n}

(***************************************************************************)
(* Inputs of the financial tool                                            *)
(***************************************************************************)
\* the longest list of matched scholarships handed to the financial tool
MaxMatched == 2

NewYorkStudent ==
  [target_field |-> Str("engineering"), target_location |-> Str("New York, USA"),
   academic_level |-> Str("undergraduate"), profile_score |-> 9]
BerlinGermanyStudent ==
  [target_field |-> Str("law"), target_location |-> Str("Berlin, Germany"),
   academic_level |-> Str("master"), profile_score |-> 6]
BerlinStudent ==
  [target_field |-> Str("arts"), target_location |-> Str("Berlin"),
   academic_level |-> Str("phd"), profile_score |-> 5]
HanoiStudent ==
  [target_field |-> Str("computer science"), target_location |-> Str("Hanoi, Vietnam"),
   academic_level |-> Str("postgraduate"), profile_score |-> 4]
TorontoStudent ==
  [target_field |-> Str("medicine"), target_location |-> Str("Toronto, Canada"),
   academic_level |-> Str("undergraduate"), profile_score |-> 8]

FinStudents ==
  {NewYorkStudent, BerlinGermanyStudent, BerlinStudent, HanoiStudent, TorontoStudent, EmptyMap}

MatchedMap(name, amount) ==
  [scholarship_name |-> name, university |-> Str("Target University"),
   scholarship_amount |-> amount]

\* the maps of matched scholarships: five descriptors of the amount, one of them
\* None, and a map with no key
MatchedMaps ==
  {MatchedMap(Str("Open Merit Scholarship"), Str("Full tuition coverage")),
   MatchedMap(Str("Global Talent Scholarship"), Str("Amount: 50% tuition")),
   MatchedMap(Str("Four Tests Scholarship"), Str("Amount not specified")),
   MatchedMap(Str("Strict Law Scholarship"), Str("Amount: up to $10,000")),
   MatchedMap(Str("Broken Record Scholarship"), None),
   EmptyMap}

SearchResultLists ==
  {<<>>,
   <<Str("Target University tuition: $42,000 per year. Federal aid: $3,000 and student loan: $8,000 available.")>>,
   <<Str("City College tuition: $9,000 per year")>>,
   <<Str("City College tuition: $9,000 per year"),
     Str("Target University tuition: $42,000 per year. Federal aid: $3,000 and student loan: $8,000 available.")>>,
   <<Str("Target University annual tuition $120,000; yearly fee: $6,500. Grant: , pell grant: $2,500")>>}

(***************************************************************************)
(* Inputs of the analysis tool                                             *)
(***************************************************************************)
\* the longest list of search results handed to the analysis tool
MaxBlocks == 2

\* text, followed by dots up to n characters
Padded(text, n) == text \o [i \in 1..(n - Len(text)) |-> "."]

\* one section of 101 characters
OpenMeritBlock == Padded(Str("Open Merit Scholarship for undergraduate women"), 101)
\* one section of 100 characters, in whitespace
HundredBlock ==
  <<"\n">> \o Padded(Str("Global Talent Scholarship for graduate students"), 100) \o Str("  ")
\* one section of 99 characters
ShortBlock == Padded(Str("Strict Law Scholarship"), 99)
\* a list of three scholarships, two of one name but for case and spaces
ListBlock ==
  Str("Scholarships 2025") \o <<"\n", "\n">> \o Str("1. ")
  \o Padded(Str("Open  Merit Scholarship for men"), 110) \o <<"\n", "\n">> \o Str("2. ")
  \o Padded(Str("Strict Law Scholarship"), 105) \o <<"\n", "\n">> \o Str("- ")
  \o Padded(Str("OPEN Merit Scholarship"), 101)
\* a name behind an empty line
TitleBlock ==
  Str("Funding at Target University.") \o <<"\n", "\n">> \o Str("Global Talent Scholarship")
  \o Padded(Str(": full tuition for graduate students"), 120)
\* a name in a field
FieldBlock ==
  Padded(Str("Open Merit Scholarship"), 60) \o Str(" Eligibility: ")
  \o Str("Name: merit scholarship fund") \o <<"\n">>
  \o Padded(Str("for doctoral students"), 90)
\* an award
AwardBlock ==
  Str("The scholarship Award") \o <<"\n">>
  \o Padded(Str("research grant for secondary school girls"), 100)
\* a title in the first line only
GrantBlock ==
  Str("research grant 2025") \o <<"\n">> \o Padded(Str("for students of any country"), 101)
BlankBlock == <<" ", " ", "\n", " ">>

Blocks ==
  {OpenMeritBlock, HundredBlock, ShortBlock, ListBlock, TitleBlock, FieldBlock, AwardBlock,
   GrantBlock, BlankBlock}

(***************************************************************************)
(* State                                                                   *)
(***************************************************************************)
VARIABLES
  pc,                     \* "call", then "returned" or "raised"; "returned again"
  student_profile,        \* input.student_profile
  available_scholarships, \* input.available_scholarships
  match_calls,            \* the locals of each completed call of _analyze_scholarship_match
  match_output,           \* the ScholarshipMatchingOutput returned
  matched_scholarships,   \* input.matched_scholarships of the financial tool
  search_results,         \* input.search_results, of the financial or the analysis tool
  fin_calls,              \* the outcome of each call of _calculate_individual_breakdown
  fin_output,             \* the FinancialCalculationOutput returned
  analysis_calls,         \* each turn of the loop of scholarship_analysis_tool
  analysis_output,        \* the ScholarshipAnalysisOutput returned
  analysis_previous,      \* the ScholarshipAnalysisOutput of the call before, if any
  classified_student,     \* the ClassifiedStudent made by student_classification_tool
  tasks,                  \* the three coroutines of step 2 of the workflow
  workflow_state,         \* self.workflow_state of the workflow
  text,                   \* the text an extractor is applied to
  extracted,              \* the list the extractor returned, and the extractor
  call_args,              \* the function called and its arguments
  call_result             \* what the function returned

match_vars == <<available_scholarships, match_calls, match_output>>
fin_vars == <<matched_scholarships, fin_calls, fin_output>>
analysis_vars == <<analysis_calls, analysis_output, analysis_previous>>
class_vars == <<classified_student>>
workflow_vars == <<tasks, workflow_state>>
extract_vars == <<text, extracted>>
call_vars == <<call_args, call_result>>
vars == <<pc, student_profile, search_results, match_vars, fin_vars, analysis_vars,
          class_vars, workflow_vars, extract_vars, call_vars>>

NoOutput == <<>>

MatchInit ==
  /\ pc = "call"
  /\ student_profile \in Students
  /\ available_scholarships \in ListsOf(ScholarshipMaps, MaxScholarships)
  /\ match_calls = <<>>
  /\ match_output = NoOutput
  /\ matched_scholarships = <<>>
  /\ search_results = <<>>
  /\ fin_calls = <<>>
  /\ fin_output = NoOutput
  /\ analysis_calls = <<>>
  /\ analysis_output = NoOutput
  /\ analysis_previous = NoOutput
  /\ classified_student = NoOutput
  /\ tasks = <<>>
  /\ workflow_state = <<>>
  /\ text = <<>>
  /\ extracted = NoOutput
  /\ call_args = <<>>
  /\ call_result = NoOutput

\* the scholarships at which _analyze_scholarship_match raises
RaisingAt(student, scholarships) ==
  {i \in 1..Len(scholarships) : AnalyzeRaises(student, scholarships[i])}

\* the MatchedScholarship of every call that returned one, in order
Matches(scholarships, calls) ==
  LET Values(appended) == [k \in 1..Len(appended) |-> appended[k].value]
  IN  Values(SelectSeq([i \in 1..Len(calls) |->
                          [returned |-> Returned(calls[i]),
                           value |-> MatchedScholarship(scholarships[i], calls[i])]],
                       LAMBDA r : r.returned))

\* the body of scholarship_matching_tool when no call raises: the locals of every
\* call of _analyze_scholarship_match, and the output
scholarship_matching_tool(student, scholarships) ==
  LET Output(matched) ==
        [matched_scholarships |-> matched,
         total_matches |-> Len(matched),
         best_matches |-> Take(matched, TopN),
         matching_summary |-> generate_matching_summary(matched)]
      Result(calls) ==
        [calls |-> calls, output |-> Output(SortByScore(Matches(scholarships, calls)))]
  IN  Result([i \in 1..Len(scholarships) |-> AnalyzeLocals(student, scholarships[i])])

\* scholarship_matching_tool when no call of _analyze_scholarship_match raises
MatchingToolReturns ==
  /\ pc = "call"
  /\ RaisingAt(student_profile, available_scholarships) = {}
  /\ \E r \in {scholarship_matching_tool(student_profile, available_scholarships)} :
       /\ match_calls' = r.calls
       /\ match_output' = r.output
  /\ pc' = "returned"
  /\ UNCHANGED <<student_profile, available_scholarships, search_results, fin_vars,
               analysis_vars,
               class_vars, workflow_vars, extract_vars, call_vars>>

\* scholarship_matching_tool when a call raises: the loop has no try, the exception
\* leaves the tool and nothing is returned
MatchingToolRaises ==
  /\ pc = "call"
  /\ \E raising \in {RaisingAt(student_profile, available_scholarships)} :
       /\ raising # {}
       /\ match_calls' = [i \in 1..(Least(raising) - 1) |->
                            AnalyzeLocals(student_profile, available_scholarships[i])]
  /\ pc' = "raised"
  /\ UNCHANGED <<student_profile, available_scholarships, match_output, search_results,
               fin_vars, analysis_vars,
               class_vars, workflow_vars, extract_vars, call_vars>>

MatchNext == MatchingToolReturns \/ MatchingToolRaises

SpecMatch == MatchInit /\ [][MatchNext]_vars

(***************************************************************************)
(* The functions of scholarship_matching_tool.py, each applied to          *)
(* arguments of its own                                                    *)
(***************************************************************************)
\* the scores run from 0 to MaxScore in steps of 1 / ScoreSteps
MaxScore == 110
ScoreSteps == 4
\* the longest list of missing requirements
MaxMissing == 3

Scores == {[num |-> n, den |-> ScoreSteps] : n \in 0..(MaxScore * ScoreSteps)}

\* a list of n missing requirements
MissingList(n) == [k \in 1..n |-> Str("Certificate: IELTS")]

LevelArgs == {[fn |-> "_determine_match_level", score |-> score] : score \in Scores}

PriorityArgs ==
  {[fn |-> "_determine_application_priority", score |-> score,
    missing_requirements |-> MissingList(n)] : score \in Scores, n \in 0..MaxMissing}

\* certificates_list as the classifier writes it; every score is positive
CertificateLists ==
  {<<Str("IELTS: 7.0"), Str("SAT: 1400")>>,
   <<Str("IELTS: 6.5")>>,
   <<Str("IELTS: 6.0"), Str("TOEFL: 100")>>,
   <<Str("IELTS")>>,
   <<Str("TOEFL: 80"), Str("GRE: 330")>>,
   <<Str("No international certificates mentioned")>>,
   <<>>}

\* one required certificate as the parser writes it, and the type the if/elif
\* chain of _check_certificate_match finds in it
RequiredCertificates ==
  {[required |-> Str("IELTS: minimum 7.0"), cert_type |-> "ielts"],
   [required |-> Str("IELTS: minimum 6.5"), cert_type |-> "ielts"],
   [required |-> Str("IELTS required"), cert_type |-> "ielts"],
   [required |-> Str("TOEFL: minimum 90"), cert_type |-> "toefl"],
   [required |-> Str("SAT: minimum 1300"), cert_type |-> "sat"],
   [required |-> Str("GRE required"), cert_type |-> "gre"]}

SpecificArgs ==
  {[fn |-> "_check_specific_certificate", student_certs |-> student_certs,
    required |-> r.required, cert_type |-> r.cert_type] :
     student_certs \in CertificateLists, r \in RequiredCertificates}

RequiredCertificateLists ==
  {<<>>,
   <<Str("No specific certificates mentioned")>>,
   <<Str("IELTS: minimum 6.5"), Str("No Specific SAT score")>>,
   <<Str("IELTS: minimum 7.0")>>,
   <<Str("IELTS: minimum 7.0"), Str("TOEFL: minimum 90")>>,
   <<Str("IELTS required"), Str("SAT: minimum 1300"), Str("GRE required")>>}

CertificateArgs ==
  {[fn |-> "_check_certificate_match", student |-> student, scholarship |-> scholarship] :
     student \in {[certificates_list |-> list] : list \in CertificateLists} \cup {EmptyMap},
     scholarship \in {[required_certificates |-> list] : list \in RequiredCertificateLists}
                       \cup {EmptyMap}}

\* extracurricular_list as the classifier writes it
ActivityLists ==
  {<<Str("Volunteer"), Str("Sports")>>,
   <<Str("Leadership")>>,
   <<Str("Arts"), Str("Leadership"), Str("Academic Clubs")>>,
   <<Str("Limited extracurricular activities mentioned")>>,
   <<>>}

\* required_extracurricular as the parser writes it
RequiredActivityLists ==
  {<<Str("No specific extracurricular requirements")>>,
   <<Str("Leadership")>>,
   <<Str("Leadership"), Str("Volunteer")>>,
   <<Str("Leadership"), Str("Research"), Str("Sports")>>,
   <<Str("Research"), Str("Arts"), Str("Volunteer"), Str("Sports")>>,
   <<>>}

ExtracurricularArgs ==
  {[fn |-> "_check_extracurricular_match", student |-> student,
    scholarship |-> scholarship] :
     student \in {[extracurricular_list |-> list] : list \in ActivityLists} \cup {EmptyMap},
     scholarship \in {[required_extracurricular |-> list] : list \in RequiredActivityLists}
                       \cup {EmptyMap}}

CallArgs ==
  LevelArgs \cup PriorityArgs \cup SpecificArgs \cup CertificateArgs \cup ExtracurricularArgs

CallsInit ==
  /\ pc = "call"
  /\ call_args \in CallArgs
  /\ call_result = NoOutput
  /\ student_profile = <<>>
  /\ search_results = <<>>
  /\ available_scholarships = <<>>
  /\ match_calls = <<>>
  /\ match_output = NoOutput
  /\ matched_scholarships = <<>>
  /\ fin_calls = <<>>
  /\ fin_output = NoOutput
  /\ analysis_calls = <<>>
  /\ analysis_output = NoOutput
  /\ analysis_previous = NoOutput
  /\ classified_student = NoOutput
  /\ tasks = <<>>
  /\ workflow_state = <<>>
  /\ text = <<>>
  /\ extracted = NoOutput

\* the function fn, called with call_args, returns result
Returns(fn, result) ==
  /\ pc = "call"
  /\ call_args.fn = fn
  /\ call_result' = result
  /\ pc' = "returned"
  /\ UNCHANGED <<call_args, student_profile, search_results, match_vars, fin_vars,
                 analysis_vars, class_vars, workflow_vars, extract_vars>>

DetermineMatchLevel ==
  /\ call_args.fn = "_determine_match_level"
  /\ Returns("_determine_match_level", determine_match_level(call_args.score))

DetermineApplicationPriority ==
  /\ call_args.fn = "_determine_application_priority"
  /\ Returns("_determine_application_priority",
             determine_application_priority(call_args.score,
                                            call_args.missing_requirements))

CheckSpecificCertificate ==
  /\ call_args.fn = "_check_specific_certificate"
  /\ Returns("_check_specific_certificate",
             check_specific_certificate(call_args.student_certs, call_args.required,
                                        call_args.cert_type))

CheckCertificateMatch ==
  /\ call_args.fn = "_check_certificate_match"
  /\ Returns("_check_certificate_match",
             check_certificate_match(call_args.student, call_args.scholarship))

CheckExtracurricularMatch ==
  /\ call_args.fn = "_check_extracurricular_match"
  /\ Returns("_check_extracurricular_match",
             check_extracurricular_match(call_args.student, call_args.scholarship))

CallsNext ==
  \/ DetermineMatchLevel
  \/ DetermineApplicationPriority
  \/ CheckSpecificCertificate
  \/ CheckCertificateMatch
  \/ CheckExtracurricularMatch

SpecCalls == CallsInit /\ [][CallsNext]_vars

(***************************************************************************)
(* financial_calculation_tool                                              *)
(***************************************************************************)
FinInit ==
  /\ pc = "call"
  /\ student_profile \in FinStudents
  /\ matched_scholarships \in ListsOf(MatchedMaps, MaxMatched)
  /\ search_results \in SearchResultLists
  /\ fin_calls = <<>>
  /\ fin_output = NoOutput
  /\ available_scholarships = <<>>
  /\ match_calls = <<>>
  /\ match_output = NoOutput
  /\ analysis_calls = <<>>
  /\ analysis_output = NoOutput
  /\ analysis_previous = NoOutput
  /\ classified_student = NoOutput
  /\ tasks = <<>>
  /\ workflow_state = <<>>
  /\ text = <<>>
  /\ extracted = NoOutput
  /\ call_args = <<>>
  /\ call_result = NoOutput

\* financial_calculation_tool: every call of _calculate_individual_breakdown ends in
\* a breakdown or, its exception caught, in None, and the tool returns
FinancialToolReturns ==
  /\ pc = "call"
  /\ \E r \in {financial_calculation_tool(matched_scholarships, student_profile,
                                          search_results)} :
       /\ fin_calls' = r.calls
       /\ fin_output' = r.output
  /\ pc' = "returned"
  /\ UNCHANGED <<student_profile, matched_scholarships, search_results, match_vars,
               analysis_vars,
               class_vars, workflow_vars, extract_vars, call_vars>>

FinNext == FinancialToolReturns

SpecFin == FinInit /\ [][FinNext]_vars

\* the longest list of matched scholarships whose breakdowns are sorted
MaxSorted == 4

\* four matched scholarships: one raises, two cost the same
SortedMaps ==
  {MatchedMap(Str("Open Merit Scholarship"), Str("Full tuition coverage")),
   MatchedMap(Str("Global Talent Scholarship"), Str("Amount: 50% tuition")),
   MatchedMap(Str("Half Tuition Award"), Str("Amount: 50% tuition")),
   MatchedMap(Str("Broken Record Scholarship"), None)}

FinSortInit ==
  /\ pc = "call"
  /\ student_profile = NewYorkStudent
  /\ matched_scholarships \in ListsOf(SortedMaps, MaxSorted)
  /\ search_results = <<>>
  /\ fin_calls = <<>>
  /\ fin_output = NoOutput
  /\ available_scholarships = <<>>
  /\ match_calls = <<>>
  /\ match_output = NoOutput
  /\ analysis_calls = <<>>
  /\ analysis_output = NoOutput
  /\ analysis_previous = NoOutput
  /\ classified_student = NoOutput
  /\ tasks = <<>>
  /\ workflow_state = <<>>
  /\ text = <<>>
  /\ extracted = NoOutput
  /\ call_args = <<>>
  /\ call_result = NoOutput

SpecFinSort == FinSortInit /\ [][FinNext]_vars

(***************************************************************************)
(* financial_calculation_tool over the descriptors of the amount           *)
(***************************************************************************)
BostonStudent ==
  [target_field |-> Str("history"), target_location |-> Str("Boston, USA"),
   academic_level |-> Str("undergraduate"), profile_score |-> 7]

AmountStudents == {BostonStudent, BerlinGermanyStudent, HanoiStudent}

\* descriptors of the amount: keywords, percentages, dollar amounts, and texts
\* that hold none or several of them
AmountTexts ==
  {Str("Full tuition coverage"),
   Str("Full scholarship for four years"),
   Str("100% of tuition"),
   Str("Covers 50% of tuition"),
   Str("150% of tuition fees"),
   Str("From 5 to 75% of tuition"),
   Str("25% or $5,000 per year"),
   Str("Full tuition or $5,000"),
   Str("$10,000 per year"),
   Str("$50,000 per year, up to $8,000"),
   Str("Up to $20,000"),
   Str("$3,500 annually"),
   Str("$60,000 or $5,000"),
   Str("$, to be decided"),
   Str("Amount not specified"),
   Str("")}

AmountSearchResults ==
  {<<>>,
   <<Str("Target University tuition: $42,000 per year. Federal aid: $3,000 and student loan: $8,000 available.")>>}

AmountsInit ==
  /\ pc = "call"
  /\ student_profile \in AmountStudents
  /\ matched_scholarships \in
       {<<MatchedMap(Str("Open Merit Scholarship"), amount)>> : amount \in AmountTexts}
  /\ search_results \in AmountSearchResults
  /\ fin_calls = <<>>
  /\ fin_output = NoOutput
  /\ available_scholarships = <<>>
  /\ match_calls = <<>>
  /\ match_output = NoOutput
  /\ analysis_calls = <<>>
  /\ analysis_output = NoOutput
  /\ analysis_previous = NoOutput
  /\ classified_student = NoOutput
  /\ tasks = <<>>
  /\ workflow_state = <<>>
  /\ text = <<>>
  /\ extracted = NoOutput
  /\ call_args = <<>>
  /\ call_result = NoOutput

SpecAmounts == AmountsInit /\ [][FinNext]_vars

(***************************************************************************)
(* financial_calculation_tool over the evidence of the tuition             *)
(***************************************************************************)
\* the longest list of evidence snippets
MaxSnippets == 2

\* snippets with a figure within the range, with figures outside it, with no
\* university, with another university, and with two figures
Snippets ==
  {Str("Target University tuition: $42,000 per year. Federal aid: $3,000 available."),
   Str("City College tuition: $9,000 per year"),
   Str("Target University annual tuition $120,000; yearly fee: $6,500."),
   Str("Target University tuition: $3,000 per semester"),
   Str("Tuition is $30,000 per year at most colleges"),
   Str("Target University costs $18,000 annually, tuition: $55,000")}

\* one matched scholarship of each university, and one of no university
UniversityMaps ==
  {<<MatchedMap(Str("Open Merit Scholarship"), Str("Full tuition coverage"))>>,
   <<[scholarship_name |-> Str("City Grant"), university |-> Str("City College"),
      scholarship_amount |-> Str("Amount not specified")]>>,
   <<[scholarship_name |-> Str("Global Talent Scholarship")]>>}

TuitionInit ==
  /\ pc = "call"
  /\ student_profile \in AmountStudents
  /\ matched_scholarships \in UniversityMaps
  /\ search_results \in ListsOf(Snippets, MaxSnippets)
  /\ fin_calls = <<>>
  /\ fin_output = NoOutput
  /\ available_scholarships = <<>>
  /\ match_calls = <<>>
  /\ match_output = NoOutput
  /\ analysis_calls = <<>>
  /\ analysis_output = NoOutput
  /\ analysis_previous = NoOutput
  /\ classified_student = NoOutput
  /\ tasks = <<>>
  /\ workflow_state = <<>>
  /\ text = <<>>
  /\ extracted = NoOutput
  /\ call_args = <<>>
  /\ call_result = NoOutput

SpecTuition == TuitionInit /\ [][FinNext]_vars

(***************************************************************************)
(* scholarship_analysis_tool                                               *)
(***************************************************************************)
AnalysisInit ==
  /\ pc = "call"
  /\ search_results \in ListsOf(Blocks, MaxBlocks)
  /\ analysis_calls = <<>>
  /\ analysis_output = NoOutput
  /\ analysis_previous = NoOutput
  /\ classified_student = NoOutput
  /\ tasks = <<>>
  /\ workflow_state = <<>>
  /\ text = <<>>
  /\ extracted = NoOutput
  /\ call_args = <<>>
  /\ call_result = NoOutput
  /\ student_profile = <<>>
  /\ available_scholarships = <<>>
  /\ match_calls = <<>>
  /\ match_output = NoOutput
  /\ matched_scholarships = <<>>
  /\ fin_calls = <<>>
  /\ fin_output = NoOutput

\* scholarship_analysis_tool: no turn of its loop raises, and the tool returns
AnalysisToolReturns ==
  /\ pc = "call"
  /\ \E r \in {scholarship_analysis_tool(search_results)} :
       /\ analysis_calls' = r.calls
       /\ analysis_output' = r.output
  /\ pc' = "returned"
  /\ UNCHANGED <<student_profile, search_results, match_vars, fin_vars, analysis_previous,
               class_vars, workflow_vars, extract_vars, call_vars>>

AnalysisNext == AnalysisToolReturns

SpecAnalysis == AnalysisInit /\ [][AnalysisNext]_vars

\* the longest list of search results handed to the analysis tool twice
MaxRepeatedBlocks == 2

RepeatedBlocks ==
  {OpenMeritBlock, HundredBlock, ListBlock, FieldBlock, AwardBlock, BlankBlock}

AnalysisTwiceInit ==
  /\ pc = "call"
  /\ search_results \in ListsOf(RepeatedBlocks, MaxRepeatedBlocks)
  /\ analysis_calls = <<>>
  /\ analysis_output = NoOutput
  /\ analysis_previous = NoOutput
  /\ classified_student = NoOutput
  /\ tasks = <<>>
  /\ workflow_state = <<>>
  /\ text = <<>>
  /\ extracted = NoOutput
  /\ call_args = <<>>
  /\ call_result = NoOutput
  /\ student_profile = <<>>
  /\ available_scholarships = <<>>
  /\ match_calls = <<>>
  /\ match_output = NoOutput
  /\ matched_scholarships = <<>>
  /\ fin_calls = <<>>
  /\ fin_output = NoOutput

\* the second call, were seen_names kept from the call before instead of being
\* a local of remove_duplicate_scholarships
AnalysisToolCalledAgainSeenKept ==
  /\ pc = "returned"
  /\ analysis_previous' = analysis_output
  /\ \E r \in {scholarship_analysis_tool(search_results)} :
       /\ analysis_calls' = r.calls
       /\ \E unique \in {UniqueScholarships(
                            r.output.scholarships,
                            {normalized_name(analysis_output.scholarships[k].name) :
                               k \in 1..Len(analysis_output.scholarships)})} :
            analysis_output' = [r.output EXCEPT !.scholarships = unique,
                                                !.total_scholarships_found = Len(unique)]
  /\ pc' = "returned again"
  /\ UNCHANGED <<student_profile, search_results, match_vars, fin_vars,
               class_vars, workflow_vars, extract_vars, call_vars>>

\* scholarship_analysis_tool called once more with the input of the call before:
\* the function keeps nothing but its locals, which every call makes anew
AnalysisToolCalledAgain ==
  /\ pc = "returned"
  /\ analysis_previous' = analysis_output
  /\ \E r \in {scholarship_analysis_tool(search_results)} :
       /\ analysis_calls' = r.calls
       /\ analysis_output' = r.output
  /\ pc' = "returned again"
  /\ UNCHANGED <<student_profile, search_results, match_vars, fin_vars,
               class_vars, workflow_vars, extract_vars, call_vars>>

AnalysisTwiceNext == AnalysisToolReturns \/ AnalysisToolCalledAgain

SpecAnalysisTwice == AnalysisTwiceInit /\ [][AnalysisTwiceNext]_vars

(***************************************************************************)
(* Inputs of the classification tool                                       *)
(***************************************************************************)
AcademicBackgrounds ==
  {Str("Undergraduate, GPA: 3.8"), Str("GPA 3.79 in high school"), Str("gpa:3.5/4.0"),
   Str("GPA : 3.0"), Str("GPA 2.9"), Str("GPA of 3.9"), Str("Top of the class"),
   Str("Master, GPA 4")}

CertificateTexts ==
  {Str("IELTS: 7.0, SAT 1400"), Str("toefl"), Str("A language certificate"),
   Str("Satisfactory English"), Str("GMAT: 700"), Str("")}

ExtracurricularTexts ==
  {Padded(Str("Volunteer at a charity and football club president"), 51),
   Padded(Str("Debate team, science club and math olympiad"), 50),
   Str("  ") \o Padded(Str("Music and drama society organizer"), 50) \o Str(" \n"),
   Str("Reading"),
   Str("")}

StudentProfiles ==
  {[personal_info |-> Str("Vietnam"),
    academic_background |-> academic,
    extracurricular |-> extracurricular,
    certificates |-> certificates,
    target_field |-> Str("Computer Science"),
    target_location |-> Str("Canada")] :
     academic \in AcademicBackgrounds,
     certificates \in CertificateTexts,
     extracurricular \in ExtracurricularTexts}

(***************************************************************************)
(* The classification tool                                                 *)
(***************************************************************************)
ClassifyInit ==
  /\ pc = "call"
  /\ student_profile \in StudentProfiles
  /\ classified_student = NoOutput
  /\ search_results = <<>>
  /\ available_scholarships = <<>>
  /\ match_calls = <<>>
  /\ match_output = NoOutput
  /\ matched_scholarships = <<>>
  /\ fin_calls = <<>>
  /\ fin_output = NoOutput
  /\ analysis_calls = <<>>
  /\ analysis_output = NoOutput
  /\ analysis_previous = NoOutput
  /\ tasks = <<>>
  /\ workflow_state = <<>>
  /\ text = <<>>
  /\ extracted = NoOutput
  /\ call_args = <<>>
  /\ call_result = NoOutput

StudentClassificationToolReturns ==
  /\ pc = "call"
  /\ classified_student' = student_classification_tool(student_profile)
  /\ pc' = "returned"
  /\ UNCHANGED <<student_profile, search_results, match_vars, fin_vars, analysis_vars,
                 workflow_vars, extract_vars, call_vars>>

ClassifyNext == StudentClassificationToolReturns

SpecClassify == ClassifyInit /\ [][ClassifyNext]_vars

(***************************************************************************)
(* The list-valued extractors, each applied to a text                      *)
(***************************************************************************)
Texts ==
  {Str(""),
   Str("   \n"),
   Str("Open to all students"),
   Str("IELTS: 7.0, TOEFL 100"),
   Str("ielts and GMAT: 700"),
   Str("SAT score of 1400 and GRE"),
   Str("Applicants need IELTS score 6.5"),
   Str("A language certificate"),
   Str("Satisfactory grades"),
   Str("No international certificates mentioned"),
   Str("No specific certificates mentioned"),
   Str("Minimum GPA 3.5 with honors"),
   Str("GPA of 3.0, top 10%"),
   Str("gpa: 3.5"),
   Str("Grade point average 3.7 and a thesis"),
   Str("Standard academic performance"),
   Str("Dean's list members"),
   Str("Volunteer at a charity; football club president"),
   Str("Debate and math olympiad"),
   Str("Leadership in sports and creative arts"),
   Str("Team captain, research publication"),
   Str("Limited extracurricular activities mentioned"),
   Str("No specific extracurricular requirements"),
   Str("Reading")}

ExtractInit ==
  /\ pc = "call"
  /\ text \in Texts
  /\ extracted = NoOutput
  /\ call_args = <<>>
  /\ call_result = NoOutput
  /\ student_profile = <<>>
  /\ search_results = <<>>
  /\ available_scholarships = <<>>
  /\ match_calls = <<>>
  /\ match_output = NoOutput
  /\ matched_scholarships = <<>>
  /\ fin_calls = <<>>
  /\ fin_output = NoOutput
  /\ analysis_calls = <<>>
  /\ analysis_output = NoOutput
  /\ analysis_previous = NoOutput
  /\ classified_student = NoOutput
  /\ tasks = <<>>
  /\ workflow_state = <<>>

\* the extractor by returns list
Extracts(by, list) ==
  /\ pc = "call"
  /\ extracted' = [by |-> by, list |-> list]
  /\ pc' = "returned"
  /\ UNCHANGED <<text, student_profile, search_results, match_vars, fin_vars,
                 analysis_vars, class_vars, workflow_vars, call_vars>>

ExtractCertificates == Extracts("_extract_certificates", extract_certificates(text))

ExtractExtracurricular ==
  Extracts("_extract_extracurricular", extract_extracurricular(text))

ExtractAcademicRequirements ==
  Extracts("_extract_academic_requirements", extract_academic_requirements(text))

ExtractRequiredCertificates ==
  Extracts("_extract_required_certificates", extract_required_certificates(text))

ExtractRequiredExtracurricular ==
  Extracts("_extract_required_extracurricular", extract_required_extracurricular(text))

ExtractNext ==
  \/ ExtractCertificates
  \/ ExtractExtracurricular
  \/ ExtractAcademicRequirements
  \/ ExtractRequiredCertificates
  \/ ExtractRequiredExtracurricular

SpecExtract == ExtractInit /\ [][ExtractNext]_vars

(***************************************************************************)
(* The age group and the gender of a personal information                  *)
(***************************************************************************)
\* how a personal information states the gender, if it does
GenderPhrases ==
  {Str("female student"), Str("woman"), Str("girl"), <<"n", "ữ">>, Str("male student"),
   Str("boy"), Str("young man"), Str("student")}

\* how it states the age, if it does
AgePhrases ==
  {Str(", 17 years old"), Str(", age: 24"), <<",", " ", "2", "7", " ", "t", "u", "ổ", "i">>,
   Str(", 35 year old"), Str(", age 123"), Str(", 118years  old"), Str("")}

PersonalTexts ==
  {Str("I am a ") \o gender \o age : gender \in GenderPhrases, age \in AgePhrases}

PersonalInit ==
  /\ pc = "call"
  /\ text \in PersonalTexts
  /\ extracted = NoOutput
  /\ call_args = <<>>
  /\ call_result = NoOutput
  /\ student_profile = <<>>
  /\ search_results = <<>>
  /\ available_scholarships = <<>>
  /\ match_calls = <<>>
  /\ match_output = NoOutput
  /\ matched_scholarships = <<>>
  /\ fin_calls = <<>>
  /\ fin_output = NoOutput
  /\ analysis_calls = <<>>
  /\ analysis_output = NoOutput
  /\ analysis_previous = NoOutput
  /\ classified_student = NoOutput
  /\ tasks = <<>>
  /\ workflow_state = <<>>

ExtractAgeGroup == Extracts("_extract_age_group", extract_age_group(text))

ExtractGender == Extracts("_extract_gender", extract_gender(text))

PersonalNext ==
  \/ ExtractAgeGroup
  \/ ExtractGender

SpecPersonal == PersonalInit /\ [][PersonalNext]_vars

(***************************************************************************)
(* A parsed section handed to the matching: _parse_scholarship_section,    *)
(* then _analyze_scholarship_match on the fields of its ScholarshipInfo    *)
(***************************************************************************)
\* _parse_scholarship_section with the three lists of requirements
parsed_scholarship(section) ==
  LET Info(parsed) ==
        IF parsed.is_none THEN parsed
        ELSE [is_none |-> FALSE,
              scholarship |->
                [name |-> parsed.scholarship.name,
                 target_age_group |-> parsed.scholarship.target_age_group,
                 target_gender |-> parsed.scholarship.target_gender,
                 academic_requirements |-> extract_academic_requirements(section),
                 required_certificates |-> extract_required_certificates(section),
                 required_extracurricular |-> extract_required_extracurricular(section)]]
  IN  Info(parse_scholarship_section(section))

\* what sections say behind the name of the scholarship
Eligibilities ==
  {Str("for students of any country"),
   Str("for holders of a bachelor degree"),
   Str("requires IELTS 6.5 and leadership"),
   Str("for graduate students with satisfactory grades"),
   Str("for PhD research"),
   Str("for high school students"),
   Str("for master students, TOEFL 90"),
   Str("for undergraduate women, SAT score of 1300"),
   Str("for first year students ahead of their class"),
   Str("for doctoral candidates from Greece"),
   Str("No specific certificates mentioned"),
   Str("for volunteers")}

\* sections of one scholarship each, and a section with no name
Sections ==
  {Str("Open Merit Scholarship ") \o eligibility : eligibility \in Eligibilities}
  \cup {Str("Funding for students of any country")}

ParsedInit ==
  /\ pc = "call"
  /\ text \in Sections
  /\ student_profile \in Students
  /\ extracted = NoOutput
  /\ call_args = <<>>
  /\ call_result = NoOutput
  /\ search_results = <<>>
  /\ available_scholarships = <<>>
  /\ match_calls = <<>>
  /\ match_output = NoOutput
  /\ matched_scholarships = <<>>
  /\ fin_calls = <<>>
  /\ fin_output = NoOutput
  /\ analysis_calls = <<>>
  /\ analysis_output = NoOutput
  /\ analysis_previous = NoOutput
  /\ classified_student = NoOutput
  /\ tasks = <<>>
  /\ workflow_state = <<>>

\* _parse_scholarship_section returns the ScholarshipInfo of the section, or None
ParseScholarshipSection ==
  /\ pc = "call"
  /\ \E parsed \in {parsed_scholarship(text)} :
       IF parsed.is_none
       THEN pc' = "none" /\ extracted' = NoOutput
       ELSE pc' = "parsed" /\ extracted' = parsed.scholarship
  /\ UNCHANGED <<text, student_profile, search_results, match_vars, fin_vars,
                 analysis_vars, class_vars, workflow_vars, call_vars>>

\* _analyze_scholarship_match on the parsed scholarship
AnalyzeParsedScholarship ==
  /\ pc = "parsed"
  /\ call_args' = [fn |-> "_analyze_scholarship_match"]
  /\ call_result' = AnalyzeLocals(student_profile, extracted)
  /\ pc' = "returned"
  /\ UNCHANGED <<text, extracted, student_profile, search_results, match_vars, fin_vars,
                 analysis_vars, class_vars, workflow_vars>>

ParsedNext ==
  \/ ParseScholarshipSection
  \/ AnalyzeParsedScholarship

SpecParsed == ParsedInit /\ [][ParsedNext]_vars

(***************************************************************************)
(* _analyze_scholarship_match called again and again for one scholarship,  *)
(* the profile_score of the student raised between the calls               *)
(***************************************************************************)
\* the lowest profile score of a student map
MinProfileScore == 1

\* academic requirements: none on the GPA, a GPA, honors, and a requirement that
\* names the GPA without a number
RaiseRequirements ==
  {<<Str("Standard academic performance")>>,
   <<Str("Minimum GPA: 3.5")>>,
   <<Str("Minimum GPA: 3.0")>>,
   <<Str("Minimum GPA: 3.3")>>,
   <<Str("Academic honors required"), Str("Minimum GPA: 3.9")>>,
   <<Str("GPA required"), Str("Minimum GPA: 2.5")>>}

RaiseScholarships ==
  {[OpenMerit EXCEPT !.academic_requirements = reqs] : reqs \in RaiseRequirements}
  \cup {FourTests, StrictLaw, EmptyMap}

RaiseInit ==
  /\ pc = "call"
  /\ student_profile \in
       {[student EXCEPT !.profile_score = MinProfileScore] : student \in Students}
  /\ available_scholarships \in {<<scholarship>> : scholarship \in RaiseScholarships}
  /\ call_args = <<>>
  /\ call_result = <<>>
  /\ search_results = <<>>
  /\ match_calls = <<>>
  /\ match_output = NoOutput
  /\ matched_scholarships = <<>>
  /\ fin_calls = <<>>
  /\ fin_output = NoOutput
  /\ analysis_calls = <<>>
  /\ analysis_output = NoOutput
  /\ analysis_previous = NoOutput
  /\ classified_student = NoOutput
  /\ tasks = <<>>
  /\ workflow_state = <<>>
  /\ text = <<>>
  /\ extracted = NoOutput

\* one call of _analyze_scholarship_match: call_args keeps the student of every
\* call and call_result the local variables at its return
AnalyzeScholarshipMatch ==
  /\ pc = "call"
  /\ call_args' = Append(call_args, student_profile)
  /\ call_result' = Append(call_result,
                           AnalyzeLocals(student_profile, available_scholarships[1]))
  /\ pc' = "analyzed"
  /\ UNCHANGED <<student_profile, search_results, available_scholarships, match_calls,
                 match_output, matched_scholarships, fin_vars, analysis_vars, class_vars,
                 workflow_vars, extract_vars>>

\* the same student with a profile_score raised by one or more, up to the highest
\* score the classifier gives
RaiseProfileScore ==
  /\ pc = "analyzed"
  /\ \E raised \in (student_profile.profile_score + 1)..MaxProfileScore :
       student_profile' = [student_profile EXCEPT !.profile_score = raised]
  /\ pc' = "call"
  /\ UNCHANGED <<search_results, available_scholarships, match_calls, match_output,
                 matched_scholarships, fin_vars, analysis_vars, class_vars,
                 workflow_vars, extract_vars, call_vars>>

RaiseNext ==
  \/ AnalyzeScholarshipMatch
  \/ RaiseProfileScore

SpecRaise == RaiseInit /\ [][RaiseNext]_vars

(***************************************************************************)
(* src/workflow/SAMPLE.py: process_counseling_request                     *)
(*                                                                         *)
(* counseling_system is one object for every message, so the executions of *)
(* process_counseling_request share self.workflow_state and interleave at  *)
(* every await.  pc[r] is the position of execution r; tasks[r] holds the   *)
(* agent call of each stage of execution r: "none" before it is made,      *)
(* "pending" while it is awaited, then "done" or "raised".                  *)
(***************************************************************************)
\* the executions of process_counseling_request that run together
MaxRequests == 2

Requests == 1..MaxRequests

\* the three coroutines handed to asyncio.gather
Step2Tasks == {"research", "classification", "profile"}

Stages == Step2Tasks \cup {"matching", "financial", "counseling"}

Unset == "unset"

WorkflowInit ==
  /\ pc = [r \in Requests |-> "idle"]
  /\ tasks = [r \in Requests |-> [s \in Stages |-> "none"]]
  /\ workflow_state = [structured_input |-> Unset,
                       step_1_complete |-> Unset,
                       step_2_complete |-> Unset,
                       step_3_complete |-> Unset,
                       step_4_complete |-> Unset,
                       step_5_complete |-> Unset]
  /\ student_profile = <<>>
  /\ search_results = <<>>
  /\ available_scholarships = <<>>
  /\ match_calls = <<>>
  /\ match_output = NoOutput
  /\ matched_scholarships = <<>>
  /\ fin_calls = <<>>
  /\ fin_output = NoOutput
  /\ analysis_calls = <<>>
  /\ analysis_output = NoOutput
  /\ analysis_previous = NoOutput
  /\ classified_student = NoOutput
  /\ text = <<>>
  /\ extracted = NoOutput
  /\ call_args = <<>>
  /\ call_result = NoOutput

workflow_idle == <<student_profile, search_results, match_vars, fin_vars, analysis_vars,
                   class_vars, extract_vars, call_vars>>

\* process_counseling_request is called and awaits the coordinator agent
Request(r) ==
  /\ pc[r] = "idle"
  /\ pc' = [pc EXCEPT ![r] = "step 1"]
  /\ UNCHANGED <<tasks, workflow_state, workflow_idle>>

\* _step_1_coordination: the agent answered and the answer held JSON, or held
\* none, or another exception was raised once output was bound
Step1Coordination(r) ==
  /\ pc[r] = "step 1"
  /\ \E outcome \in {"parsed", "fallback", "error record"} :
       workflow_state' = [workflow_state EXCEPT
                            !.step_1_complete = (outcome = "parsed"),
                            !.structured_input = outcome]
  /\ pc' = [pc EXCEPT ![r] = "step 2"]
  /\ UNCHANGED <<tasks, workflow_idle>>

\* the coordinator agent raised: the handler prints output, which was never
\* bound, and its exception ends the workflow with the error message
Step1AgentRaises(r) ==
  /\ pc[r] = "step 1"
  /\ pc' = [pc EXCEPT ![r] = "error"]
  /\ UNCHANGED <<tasks, workflow_state, workflow_idle>>

\* _step_2_parallel_processing up to await asyncio.gather(...)
Step2Launch(r) ==
  /\ pc[r] = "step 2"
  /\ tasks' = [tasks EXCEPT ![r] =
                 [s \in Stages |-> IF s \in Step2Tasks THEN "pending" ELSE @[s]]]
  /\ pc' = [pc EXCEPT ![r] = "gather"]
  /\ UNCHANGED <<workflow_state, workflow_idle>>

\* the agent call of a stage returns; a task of gather does so whether or not
\* gather is still awaited
AgentReturns(r, s) ==
  /\ tasks[r][s] = "pending"
  /\ s \in Step2Tasks
  /\ tasks' = [tasks EXCEPT ![r][s] = "done"]
  /\ UNCHANGED <<pc, workflow_state, workflow_idle>>

AgentRaises(r, s) ==
  /\ tasks[r][s] = "pending"
  /\ s \in Step2Tasks
  /\ tasks' = [tasks EXCEPT ![r][s] = "raised"]
  /\ UNCHANGED <<pc, workflow_state, workflow_idle>>

\* gather, were it to return with the first task that is done
GatherReturnsFirstCompleted(r) ==
  /\ pc[r] = "gather"
  /\ \E s \in Step2Tasks : tasks[r][s] = "done"
  /\ \A s \in Step2Tasks : tasks[r][s] # "raised"
  /\ workflow_state' = [workflow_state EXCEPT !.step_2_complete = TRUE]
  /\ tasks' = [tasks EXCEPT ![r]["matching"] = "pending"]
  /\ pc' = [pc EXCEPT ![r] = "step 3"]
  /\ UNCHANGED workflow_idle

\* gather returns the three results; step 2 stores them, and
\* _step_3_scholarship_matching runs up to its agent call
GatherReturns(r) ==
  /\ pc[r] = "gather"
  /\ \A s \in Step2Tasks : tasks[r][s] = "done"
  /\ workflow_state' = [workflow_state EXCEPT !.step_2_complete = TRUE]
  /\ tasks' = [tasks EXCEPT ![r]["matching"] = "pending"]
  /\ pc' = [pc EXCEPT ![r] = "step 3"]
  /\ UNCHANGED workflow_idle

\* gather raises the exception of a task; the tasks still pending go on
GatherRaises(r) ==
  /\ pc[r] = "gather"
  /\ \E s \in Step2Tasks : tasks[r][s] = "raised"
  /\ pc' = [pc EXCEPT ![r] = "error"]
  /\ UNCHANGED <<tasks, workflow_state, workflow_idle>>

\* the agent call of a sequential step returns: the step sets its flag, and the
\* next step runs up to its agent call
StepCompletes(r, at, stage, flag, next, then) ==
  /\ pc[r] = at
  /\ tasks[r][stage] = "pending"
  /\ workflow_state' = [workflow_state EXCEPT ![flag] = TRUE]
  /\ tasks' = [tasks EXCEPT ![r] =
                 [s \in Stages |-> IF s = stage THEN "done"
                                   ELSE IF s = next THEN "pending" ELSE @[s]]]
  /\ pc' = [pc EXCEPT ![r] = then]
  /\ UNCHANGED workflow_idle

\* the agent call of a sequential step raises
StepRaises(r, at, stage) ==
  /\ pc[r] = at
  /\ tasks[r][stage] = "pending"
  /\ tasks' = [tasks EXCEPT ![r][stage] = "raised"]
  /\ pc' = [pc EXCEPT ![r] = "error"]
  /\ UNCHANGED <<workflow_state, workflow_idle>>

Step3Matching(r) == StepCompletes(r, "step 3", "matching", "step_3_complete", "financial", "step 4")
Step3Raises(r) == StepRaises(r, "step 3", "matching")
Step4Financial(r) == StepCompletes(r, "step 4", "financial", "step_4_complete", "counseling", "step 5")
Step4Raises(r) == StepRaises(r, "step 4", "financial")
Step5Counseling(r) == StepCompletes(r, "step 5", "counseling", "step_5_complete", "no stage", "done")
Step5Raises(r) == StepRaises(r, "step 5", "counseling")

WorkflowNext ==
  \E r \in Requests :
    \/ Request(r)
    \/ Step1Coordination(r)
    \/ Step1AgentRaises(r)
    \/ Step2Launch(r)
    \/ \E s \in Step2Tasks : AgentReturns(r, s) \/ AgentRaises(r, s)
    \/ GatherReturns(r)
    \/ GatherRaises(r)
    \/ Step3Matching(r)
    \/ Step3Raises(r)
    \/ Step4Financial(r)
    \/ Step4Raises(r)
    \/ Step5Counseling(r)
    \/ Step5Raises(r)

SpecWorkflow == WorkflowInit /\ [][WorkflowNext]_vars

(***************************************************************************)
(* Claims about scholarship_matching_tool                                  *)
(***************************************************************************)
Sum5(c) == RAdd(RAdd(RAdd(RAdd(c.demo_score, c.academic_score), c.cert_score),
                     c.extra_score), c.field_score)
Within(score, lo, hi) == RGeq(score, lo) /\ RLeq(score, hi)

\* C1: for every student and scholarship the total match score is the sum of the
\* five sub-scores, the sub-scores lie in [0,20], [0,30], [0,25], [0,15] and [0,10],
\* and the total lies in [0,100].
C1_ScoreBounds ==
  \A i \in 1..Len(match_calls) :
    LET c == match_calls[i]
    IN  /\ REq(c.match_score, Sum5(c))
        /\ Within(c.demo_score, 0, 20)
        /\ Within(c.academic_score, 0, 30)
        /\ Within(c.cert_score, 0, 25)
        /\ Within(c.extra_score, 0, 15)
        /\ Within(c.field_score, 0, 10)
        /\ Within(c.match_score, 0, 100)

\* the MatchedScholarship of every call that did not end in NO_MATCH, in input order
KeptInOrder ==
  LET n == Len(match_calls)
      all == [i \in 1..n |-> [level |-> match_calls[i].match_level,
                              value |-> MatchedScholarship(available_scholarships[i], match_calls[i])]]
      kept == SelectSeq(all, LAMBDA r : r.level # "no_match")
  IN  [k \in 1..Len(kept) |-> kept[k].value]

\* C2: every entry of matched_scholarships and of best_matches has a match level
\* other than NO_MATCH and a match_score of at least 25, and the entries are those
\* of the scholarships whose total score is at least 25: one of a lower total
\* never appears.
C2_NoMatchExcluded ==
  pc = "returned" =>
    LET out == match_output.matched_scholarships
        best == match_output.best_matches
        Good(e) == e.match_level # "no_match" /\ RGeq(e.match_score, 25)
    IN  /\ \A k \in 1..Len(out) : Good(out[k])
        /\ \A k \in 1..Len(best) : Good(best[k])
        /\ Len(out) = Cardinality({i \in 1..Len(match_calls) :
                                     RGeq(match_calls[i].match_score, 25)})
        /\ \A k \in 1..Len(out) :
             \E i \in 1..Len(match_calls) :
               /\ RGeq(match_calls[i].match_score, 25)
               /\ out[k].scholarship_name =
                    Get(available_scholarships[i], "name", Str("Unknown Scholarship"))

\* a call that returned entries although one scholarship scored below 25
C2_Witness ==
  /\ pc = "returned"
  /\ match_output.total_matches >= 1
  /\ \E i \in 1..Len(match_calls) : ~RGeq(match_calls[i].match_score, 25)

\* the scenario of C3: a student of profile score 9 and the scholarship OpenMerit
\* (GPA 3.5 required, no certificate and no activity requirement, neutral, field all)
C3_Case(i) == student_profile.profile_score = 9 /\ available_scholarships[i] = OpenMerit

C4_SortedStableTop3 ==
  pc = "returned" =>
    LET out == match_output.matched_scholarships
        kept == KeptInOrder
        n == Len(out)
        \* the place of kept[j] in a stable sort, highest score first
        Rank(j) == 1 + Cardinality({i \in 1..Len(kept) :
                         \/ RLess(kept[j].match_score, kept[i].match_score)
                         \/ (i < j /\ REq(kept[i].match_score, kept[j].match_score))})
    IN  /\ n = Len(kept)
        /\ \A j \in 1..Len(kept) : out[Rank(j)] = kept[j]
        /\ \A a \in 1..n : \A b \in a..n : ~RLess(out[a].match_score, out[b].match_score)
        /\ match_output.best_matches = SubSeq(out, 1, IF n < 3 THEN n ELSE 3)
        /\ match_output.total_matches = n

\* a call that returned more than three entries, two of them different and of equal
\* score, from an input that was not in order
C4_Witness ==
  /\ pc = "returned"
  /\ LET out == match_output.matched_scholarships
         kept == KeptInOrder
     IN  /\ Len(out) > 3
         /\ \E a, b \in 1..Len(out) :
              /\ a < b
              /\ REq(out[a].match_score, out[b].match_score)
              /\ out[a].scholarship_name # out[b].scholarship_name
         /\ \E i, j \in 1..Len(kept) :
              i < j /\ RLess(kept[i].match_score, kept[j].match_score)

\* C6 (the matching tool): a call always returns, whatever one record does.
C6_BatchCompletes == pc # "raised"

(***************************************************************************)
(* Claims about financial_calculation_tool                                 *)
(***************************************************************************)
\* C5: in every FinancialBreakdown net_annual_cost is max(0, annual_tuition -
\* (scholarship + government aid + government loan)) and so never negative,
\* total_net_cost is net_annual_cost * program_duration_years, total_tuition is
\* annual_tuition * duration, scholarship_total is scholarship_amount_annual *
\* duration and total_estimated_cost is total_net_cost + living cost * duration.
C5_BreakdownArithmetic ==
  \A i \in 1..Len(fin_calls) :
    ~fin_calls[i].raised =>
      LET b == fin_calls[i].breakdown
          aid == b.scholarship_amount_annual + b.government_aid_annual
                 + b.government_loan_annual
          years == b.program_duration_years
      IN  /\ b.net_annual_cost =
               (IF b.annual_tuition - aid > 0 THEN b.annual_tuition - aid ELSE 0)
          /\ b.net_annual_cost >= 0
          /\ b.total_net_cost = b.net_annual_cost * years
          /\ b.total_tuition = b.annual_tuition * years
          /\ b.scholarship_total = b.scholarship_amount_annual * years
          /\ b.total_estimated_cost =
               b.total_net_cost + b.estimated_living_cost_annual * years

\* a call with a breakdown whose aid exceeds the tuition and a breakdown whose aid
\* does not cover it
C5_Witness ==
  /\ pc = "returned"
  /\ \E i, j \in 1..Len(fin_calls) :
       /\ ~fin_calls[i].raised /\ ~fin_calls[j].raised
       /\ LET b == fin_calls[i].breakdown
          IN  /\ b.scholarship_amount_annual + b.government_aid_annual
                 + b.government_loan_annual > b.annual_tuition
              /\ b.net_annual_cost = 0
       /\ fin_calls[j].breakdown.net_annual_cost > 0
       /\ fin_calls[j].breakdown.program_duration_years > 1

\* the places of living_costs that are in the target location of the student
MatchingPlaces ==
  LET location_lower == Lower(Get(student_profile, "target_location", Str("Unknown Location")))
  IN  {k \in 1..Len(living_costs) : Contains(location_lower, living_costs[k][1])}

\* C7: the living cost of a location in which several places of the table are is
\* the cost of the longest of them, and the default 12000 only when none is.
C7_LongestKeyWins ==
  \A i \in 1..Len(fin_calls) :
    ~fin_calls[i].raised =>
      LET cost == fin_calls[i].breakdown.estimated_living_cost_annual
      IN  IF MatchingPlaces = {}
          THEN cost = Dollars(DefaultLivingCost) /\ fin_calls[i].place = None
          ELSE \E k \in MatchingPlaces :
                 /\ \A j \in MatchingPlaces :
                      Len(living_costs[k][1]) >= Len(living_costs[j][1])
                 /\ fin_calls[i].place = living_costs[k][1]
                 /\ cost = Dollars(living_costs[k][2])

\* the scenario of C8: the target location 'Berlin'
C8_Case(i) ==
  /\ ~fin_calls[i].raised
  /\ "target_location" \in DOMAIN student_profile
  /\ student_profile.target_location = Str("Berlin")

\* C8 as stated: for 'Berlin' the lookup falls back to the entry of 'germany',
\* 10000.
C8_Original ==
  \A i \in 1..Len(fin_calls) :
    C8_Case(i) =>
      /\ fin_calls[i].place = Str("germany")
      /\ fin_calls[i].breakdown.estimated_living_cost_annual = Dollars(10000)

\* C8 as amended: for 'Berlin' the lookup returns at the entry of 'berlin', 12000;
\* it reaches neither the entry of 'germany' nor the default.
C8_BerlinEntry ==
  \A i \in 1..Len(fin_calls) :
    C8_Case(i) =>
      /\ fin_calls[i].place = Str("berlin")
      /\ fin_calls[i].breakdown.estimated_living_cost_annual = Dollars(12000)

C8_Witness ==
  /\ pc = "returned"
  /\ \E i \in 1..Len(fin_calls) : C8_Case(i)

(***************************************************************************)
(* Claims about scholarship_analysis_tool                                  *)
(***************************************************************************)
\* the sections of turn i before the filter of len: stripped and not empty
Candidates(i) == SectionsAfter(search_results[i], Len(delimiters))

\* section is one of the sections turn i handed to _parse_scholarship_section
PassedOn(i, section) ==
  \E k \in 1..Len(analysis_calls[i].sections) : analysis_calls[i].sections[k] = section

\* C9 as stated: the filter discards exactly the sections shorter than 100
\* characters; a section of 100 or more characters is passed on to name
\* extraction.
C9_Original ==
  \A i \in 1..Len(analysis_calls) :
    ~analysis_calls[i].skipped =>
      \A candidates \in {Candidates(i)} :
        \A c \in 1..Len(candidates) :
          PassedOn(i, candidates[c]) <=> Len(candidates[c]) >= 100

\* C9 as amended: the filter discards exactly the sections of 100 characters or
\* fewer; a section of 101 or more characters is passed on to name extraction, in
\* order, and every ScholarshipInfo is of a section of more than 100 characters.
C9_LengthFilter ==
  \A i \in 1..Len(analysis_calls) :
    ~analysis_calls[i].skipped =>
      \A candidates \in {Candidates(i)} :
        /\ \A c \in 1..Len(candidates) :
             PassedOn(i, candidates[c]) <=> Len(candidates[c]) >= 101
        /\ analysis_calls[i].sections = SelectSeq(candidates, LAMBDA s : Len(s) >= 101)
        /\ Len(analysis_calls[i].parsed) = Len(analysis_calls[i].sections)
        /\ \A k \in 1..Len(analysis_calls[i].parsed) :
             ~analysis_calls[i].parsed[k].is_none
               => Len(analysis_calls[i].sections[k]) > 100

\* the lengths of the sections of turn i that the filter discarded
DiscardedLengths(i) ==
  UNION {{Len(candidates[c]) : c \in 1..Len(candidates)} : candidates \in {Candidates(i)}}
  \ {Len(analysis_calls[i].sections[k]) : k \in 1..Len(analysis_calls[i].sections)}

\* a call with a section of 100 characters and a shorter one discarded and a
\* section of 101 characters that gave a ScholarshipInfo
C9_Witness ==
  /\ pc = "returned"
  /\ \E i \in 1..Len(analysis_calls) : 100 \in DiscardedLengths(i)
  /\ \E i \in 1..Len(analysis_calls) : \E n \in DiscardedLengths(i) : n < 100
  /\ \E i \in 1..Len(analysis_calls) :
       \E k \in 1..Len(analysis_calls[i].sections) :
         /\ Len(analysis_calls[i].sections[k]) = 101
         /\ ~analysis_calls[i].parsed[k].is_none

\* the words of a name, lower-cased: two names are equal after lower-casing,
\* trimming and collapsing whitespace runs when their words are equal
Words(name) ==
  LET starts == {i \in 1..Len(name) :
                   name[i] \notin WhiteSpace /\ (i = 1 \/ name[i - 1] \in WhiteSpace)}
      Start(k) == CHOOSE p \in starts : Cardinality({q \in starts : q <= p}) = k
      End(p) == CHOOSE e \in p..Len(name) :
                  /\ \A j \in p..e : name[j] \notin WhiteSpace
                  /\ e = Len(name) \/ name[e + 1] \in WhiteSpace
  IN  [k \in 1..Cardinality(starts) |-> Lower(SubSeq(name, Start(k), End(Start(k))))]

\* the records in extraction order: blocks in input order, sections in order
\* within a block
ExtractionOrder == Extended(analysis_calls)

\* C10: the list returned never holds two records whose names are equal after
\* lower-casing, trimming and collapsing whitespace runs; of the records of one
\* normalized name the first in extraction order is kept, and the kept records
\* keep their order.
C10_FirstKeptInOrder ==
  pc = "returned" =>
    LET all == ExtractionOrder
        out == analysis_output.scholarships
        first == {k \in 1..Len(all) :
                    \A j \in 1..(k - 1) : Words(all[j].name) # Words(all[k].name)}
    IN  /\ \A a, b \in 1..Len(out) : a < b => Words(out[a].name) # Words(out[b].name)
        /\ Len(out) = Cardinality(first)
        /\ \A k \in first : out[Cardinality({j \in first : j <= k})] = all[k]
        /\ analysis_output.total_scholarships_found = Len(out)

\* a call of two blocks that kept two records or more and dropped a record whose
\* name differs from the name kept in its place
C10_Witness ==
  /\ pc = "returned"
  /\ Len(analysis_calls) = 2
  /\ analysis_calls[1].extracted # <<>> /\ analysis_calls[2].extracted # <<>>
  /\ Len(analysis_output.scholarships) >= 2
  /\ \E j, k \in 1..Len(ExtractionOrder) :
       /\ j < k
       /\ Words(ExtractionOrder[j].name) = Words(ExtractionOrder[k].name)
       /\ ExtractionOrder[j].name # ExtractionOrder[k].name
       /\ \E a \in 1..Len(analysis_output.scholarships) :
            analysis_output.scholarships[a] = ExtractionOrder[j]
       /\ \A a \in 1..Len(analysis_output.scholarships) :
            analysis_output.scholarships[a].name # ExtractionOrder[k].name

StatedGpa ==
  LET Read(academic_lower) ==
        LET Number(g) == IF g.ok THEN DecimalAt(academic_lower, g.from) ELSE NoNumber
        IN  Number(Search(academic_lower, gpa_pattern))
  IN  Read(Lower(student_profile.academic_background))

\* 5, plus the GPA, certificate and extracurricular points, the last when
\* substantial holds, kept within 1..10
ProfileScoreOf(substantial) ==
  LET Gpa(gpa) ==
        IF ~gpa.ok THEN 0
        ELSE IF 10 * gpa.m >= 38 * Pow10(gpa.e) THEN 3
        ELSE IF 10 * gpa.m >= 35 * Pow10(gpa.e) THEN 2
        ELSE IF 10 * gpa.m >= 30 * Pow10(gpa.e) THEN 1
        ELSE 0
      Certs(certs_lower) ==
        IF \E name \in {"ielts", "toefl", "sat", "gre"} : Contains(certs_lower, Str(name))
        THEN 2
        ELSE IF Contains(certs_lower, Str("certificate")) THEN 1
        ELSE 0
      Clamped(score) == IF score > 10 THEN 10 ELSE IF score < 1 THEN 1 ELSE score
  IN  Clamped(5 + Gpa(StatedGpa) + Certs(Lower(student_profile.certificates))
                + (IF substantial THEN 1 ELSE 0))

\* C12 as stated: the extracurricular point is given when the extracurricular
\* text is longer than 50 characters.
C12_Original ==
  pc = "returned" =>
    classified_student.profile_score
      = ProfileScoreOf(Len(student_profile.extracurricular) > 50)

\* C12: the profile score is 5, plus 3, 2 or 1 when the GPA read after "gpa" is at
\* least 3.8, 3.5 or 3.0, plus 2 when the certificates text holds one of ielts,
\* toefl, sat, gre in any case or else plus 1 when it holds "certificate", plus 1
\* when the extracurricular text without its leading and trailing whitespace is
\* longer than 50 characters, and lies in 1..10.
C12_ProfileScore ==
  pc = "returned" =>
    /\ classified_student.profile_score
         = ProfileScoreOf(Len(Strip(student_profile.extracurricular)) > 50)
    /\ classified_student.profile_score \in 1..10

\* a profile whose extracurricular text is longer than 50 characters only with
\* its surrounding whitespace, scored without the extracurricular point
C12_Witness ==
  /\ pc = "returned"
  /\ Len(student_profile.extracurricular) > 50
  /\ Len(Strip(student_profile.extracurricular)) = 50
  /\ StatedGpa.ok
  /\ classified_student.profile_score = 9

\* the sentinel of each list-valued extractor
SentinelOf ==
  [_extract_certificates |-> Str("No international certificates mentioned"),
   _extract_extracurricular |-> Str("Limited extracurricular activities mentioned"),
   _extract_academic_requirements |-> Str("Standard academic performance"),
   _extract_required_certificates |-> Str("No specific certificates mentioned"),
   _extract_required_extracurricular |-> Str("No specific extracurricular requirements")]

\* the words each keyword extractor looks for
WordsOf ==
  [_extract_certificates |-> {"ielts", "toefl", "sat", "gre", "gmat"},
   _extract_extracurricular |->
     {"volunteer", "community service", "charity", "sport", "football", "basketball",
      "swimming", "music", "art", "drama", "dance", "club", "society", "president",
      "organizer", "debate", "science club", "math olympiad"},
   _extract_academic_requirements |->
     {"honor", "distinction", "dean's list", "top 10%", "top ten percent"},
   _extract_required_certificates |-> {"ielts", "toefl", "sat", "gre"},
   _extract_required_extracurricular |->
     {"leadership", "president", "captain", "head", "volunteer", "community service",
      "charity", "research", "publication", "thesis", "sports", "athletics", "team",
      "arts", "music", "drama", "creative"}]

\* a number follows at place i of s, after optional whitespace
NumberFollows(s, i) ==
  \E j \in i..Len(s) : IsDigit(s[j]) /\ \A k \in i..(j - 1) : s[k] \in WhiteSpace

\* the text states a GPA: "gpa" or "grade point average", an optional "of", a number
GpaStated(lower) ==
  \E i \in 1..Len(lower), key \in {"gpa", "grade point average"} :
    /\ StartsAt(lower, i, Str(key))
    /\ \/ NumberFollows(lower, i + Len(Str(key)))
       \/ \E j \in (i + Len(Str(key)))..Len(lower) :
            /\ \A k \in (i + Len(Str(key)))..(j - 1) : lower[k] \in WhiteSpace
            /\ StartsAt(lower, j, Str("of"))
            /\ NumberFollows(lower, j + 2)

\* the extractor found something in the text
Found(by, lower) ==
  \/ \E word \in WordsOf[by] : Contains(lower, Str(word))
  \/ by = "_extract_academic_requirements" /\ GpaStated(lower)

\* C13: every list-valued extractor returns at least one entry, and the list is
\* the sentinel alone exactly when nothing was found in the text; no list that
\* holds something found holds the sentinel.
C13_NeverEmpty ==
  pc = "returned" =>
    /\ Len(extracted.list) >= 1
    /\ extracted.list = <<SentinelOf[extracted.by]>> <=> ~Found(extracted.by, Lower(text))
    /\ Found(extracted.by, Lower(text)) => ~InList(SentinelOf[extracted.by], extracted.list)

\* a text that names the sentinel of an extractor, with nothing to find, so that
\* the sentinel is returned
C13_Witness ==
  /\ pc = "returned"
  /\ extracted.list = <<SentinelOf[extracted.by]>>
  /\ text # <<>>
  /\ \E other \in Texts : Len(extract_required_certificates(other)) = 2

(***************************************************************************)
(* Claims about the workflow                                               *)
(***************************************************************************)
\* C14: in every execution, and whatever the interleaving, the matching stage has
\* started only if each of the three tasks of step 2 of that execution is done,
\* and the financial stage has started only if the matching stage of that
\* execution is done.
C14_StagesInOrder ==
  \A r \in Requests :
    /\ tasks[r]["matching"] # "none" => \A s \in Step2Tasks : tasks[r][s] = "done"
    /\ pc[r] = "step 3" => tasks[r]["matching"] = "pending"
    /\ tasks[r]["financial"] # "none" => tasks[r]["matching"] = "done"
    /\ pc[r] = "step 4" => tasks[r]["financial"] = "pending"

\* one execution is in its financial stage while a task of step 2 of another,
\* whose gather has raised, is still pending
C14_Witness ==
  \E r, other \in Requests :
    /\ pc[r] = "step 4"
    /\ pc[other] = "error"
    /\ \E s \in Step2Tasks : tasks[other][s] = "pending"

\* C15: financial_breakdowns holds the breakdowns of the scholarships that got
\* one, by total_net_cost ascending, those of equal total_net_cost in the order
\* of their scholarships in the input, and best_financial_options is its first
\* min(3, n) entries.
C15_SortedByCostStable ==
  pc = "returned" =>
    \A appended \in {Appended(fin_calls)} :
      LET out == fin_output.financial_breakdowns
          n == Len(out)
          \* the place of appended[j] in a stable sort, lowest cost first
          Rank(j) == 1 + Cardinality({i \in 1..Len(appended) :
                           \/ appended[i].total_net_cost < appended[j].total_net_cost
                           \/ (i < j /\ appended[i].total_net_cost
                                          = appended[j].total_net_cost)})
      IN  /\ n = Len(appended)
          /\ \A j \in 1..Len(appended) : out[Rank(j)] = appended[j]
          /\ \A a \in 1..n : \A b \in a..n : out[a].total_net_cost <= out[b].total_net_cost
          /\ fin_output.best_financial_options = SubSeq(out, 1, IF n < 3 THEN n ELSE 3)

\* four breakdowns returned from an input that was not in order, two of them of
\* equal cost and different scholarships, and only three of them among the best
C15_Witness ==
  /\ pc = "returned"
  /\ Len(fin_output.financial_breakdowns) = 4
  /\ Len(fin_output.best_financial_options) = 3
  /\ fin_output.financial_breakdowns # Appended(fin_calls)
  /\ \E a \in 1..3 :
       /\ fin_output.financial_breakdowns[a].total_net_cost
            = fin_output.financial_breakdowns[a + 1].total_net_cost
       /\ fin_output.financial_breakdowns[a] # fin_output.financial_breakdowns[a + 1]

(***************************************************************************)
(* Claims about the functions of scholarship_matching_tool.py              *)
(***************************************************************************)
\* the call of fn has returned
Called(fn) == pc = "returned" /\ call_args.fn = fn

\* score >= n for a score [num, den]
AtLeast(score, n) == score.num >= n * score.den

LevelOrder == <<"no_match", "poor", "fair", "good", "excellent">>

LevelRank(level) == CHOOSE k \in 1..Len(LevelOrder) : LevelOrder[k] = level

\* C16: every score has one level: EXCELLENT from 80, GOOD from 65, FAIR from 45,
\* POOR from 25, NO_MATCH below; no lower score has a higher level.
C16_LevelThresholds ==
  Called("_determine_match_level") =>
    /\ call_result \in {LevelOrder[k] : k \in 1..Len(LevelOrder)}
    /\ call_result = "excellent" <=> AtLeast(call_args.score, 80)
    /\ call_result = "good" <=> AtLeast(call_args.score, 65) /\ ~AtLeast(call_args.score, 80)
    /\ call_result = "fair" <=> AtLeast(call_args.score, 45) /\ ~AtLeast(call_args.score, 65)
    /\ call_result = "poor" <=> AtLeast(call_args.score, 25) /\ ~AtLeast(call_args.score, 45)
    /\ call_result = "no_match" <=> ~AtLeast(call_args.score, 25)
    /\ \A lower \in Scores :
         lower.num * call_args.score.den <= call_args.score.num * lower.den =>
           LevelRank(determine_match_level(lower)) <= LevelRank(call_result)

\* the score 65 exactly, found GOOD
C16_Witness ==
  /\ Called("_determine_match_level")
  /\ call_args.score.num = 65 * call_args.score.den
  /\ call_result = "good"

\* C17: the priority is HIGH when the score is at least 80 with at most 1 missing
\* requirement, otherwise MEDIUM when it is at least 65 with at most 2, otherwise
\* LOW when it is at least 45, otherwise VERY LOW.
C17_PriorityRule ==
  Called("_determine_application_priority") =>
    LET score == call_args.score
        missing == Len(call_args.missing_requirements)
        Starts(prefix) == StartsAt(Str(call_result), 1, Str(prefix))
    IN  IF AtLeast(score, 80) /\ missing <= 1 THEN Starts("HIGH - ")
        ELSE IF AtLeast(score, 65) /\ missing <= 2 THEN Starts("MEDIUM - ")
        ELSE IF AtLeast(score, 45) THEN Starts("LOW - ")
        ELSE Starts("VERY LOW - ")

\* a score of at least 80 with two missing requirements, given MEDIUM
C17_Witness ==
  /\ Called("_determine_application_priority")
  /\ AtLeast(call_args.score, 80)
  /\ Len(call_args.missing_requirements) = 2
  /\ StartsAt(Str(call_result), 1, Str("MEDIUM"))

\* the scholarship of the call states no requirement under key: its list is
\* absent or empty, or an entry holds "no specific" in any case
NoRequirement(key) ==
  LET Listed(required) ==
        \/ required = <<>>
        \/ \E i \in 1..Len(required) : Contains(Lower(required[i]), Str("no specific"))
  IN  Listed(Get(call_args.scholarship, key, <<>>))

PointsFor(student_certs, required, cert_type) ==
  LET Outcome(points, missing, suggestion) ==
        [points |-> points, missing |-> missing, suggestion |-> suggestion]
      Compared(student_score, required_score) ==
        IF ~student_score.ok THEN Outcome(3, FALSE, FALSE)
        ELSE IF ~required_score.ok THEN Outcome(5, FALSE, FALSE)
        ELSE IF student_score.m * Pow10(required_score.e)
                  >= required_score.m * Pow10(student_score.e)
        THEN Outcome(8, FALSE, FALSE)
        ELSE IF 10 * student_score.m * Pow10(required_score.e)
                  >= 9 * required_score.m * Pow10(student_score.e)
        THEN Outcome(6, FALSE, TRUE)
        ELSE Outcome(3, TRUE, TRUE)
      Listed(listing) ==
        IF listing = {} THEN Outcome(0, TRUE, TRUE)
        ELSE Compared(SearchAfter(Lower(student_certs[Least(listing)]),
                                  Str(cert_type) \o <<":">>, cert_type = "ielts"),
                      SearchDecimal(required))
  IN  Listed({i \in 1..Len(student_certs) : Contains(Lower(student_certs[i]), Str(cert_type))})

\* the certificate type a required certificate names
TypeNamed(required) ==
  CHOOSE cert_type \in {"ielts", "toefl", "sat", "gre"} :
    Contains(Lower(required), Str(cert_type))

RECURSIVE SumPoints(_, _, _)
\* the points of required_certs[1..n], summed
SumPoints(student_certs, required_certs, n) ==
  IF n = 0 THEN 0
  ELSE SumPoints(student_certs, required_certs, n - 1)
         + PointsFor(student_certs, required_certs[n], TypeNamed(required_certs[n])).points

\* C19: for one required certificate _check_specific_certificate gives 8 when the
\* score of the student is at least the required one; 6 with a suggestion and no
\* missing requirement when it is at least 90% of it; 3 with a missing requirement
\* and a suggestion when it is lower; 5 when the requirement has no number; 3 when
\* the student lists the certificate without a score; 0 with a missing requirement
\* and a suggestion when the student does not list the type.  The points of
\* _check_certificate_match are the sum of those of the required certificates.
C19_CertificatePoints ==
  /\ Called("_check_specific_certificate") =>
       \A expected \in {PointsFor(call_args.student_certs, call_args.required,
                                  call_args.cert_type)} :
         /\ call_result.score = expected.points
         /\ (call_result.missing # <<>>) = expected.missing
         /\ (call_result.suggestions # <<>>) = expected.suggestion
  /\ Called("_check_certificate_match") /\ ~NoRequirement("required_certificates") =>
       call_result.score
         = R(SumPoints(Get(call_args.student, "certificates_list", <<>>),
                       call_args.scholarship.required_certificates,
                       Len(call_args.scholarship.required_certificates)))

\* IELTS 6.5 of the student against a required 7.0: 6 points, a suggestion, no
\* missing requirement
C19_Witness ==
  /\ Called("_check_specific_certificate")
  /\ call_args.student_certs = <<Str("IELTS: 6.5")>>
  /\ call_args.required = Str("IELTS: minimum 7.0")
  /\ call_result.score = 6
  /\ call_result.missing = <<>>
  /\ Len(call_result.suggestions) = 1

\* the required activities that are found in the activities of the student: one
\* holds the other, in any case
FoundActivities(student_activities, required_activities) ==
  {i \in 1..Len(required_activities) :
     \E j \in 1..Len(student_activities) :
       \/ Contains(Lower(student_activities[j]), Lower(required_activities[i]))
       \/ Contains(Lower(required_activities[i]), Lower(student_activities[j]))}

\* C20: the extracurricular sub-score is 10 when the required activities hold the
\* no-requirement sentinel; for any other list that is not empty it is 15 times
\* the part of the required activities found in the activities of the student; it
\* lies in [0,15]; missing activities, each with a suggestion, are listed only
\* when less than half is found.
C20_ExtracurricularScore ==
  Called("_check_extracurricular_match") =>
    LET required == Get(call_args.scholarship, "required_extracurricular", <<>>)
        found == Cardinality(FoundActivities(Get(call_args.student, "extracurricular_list",
                                                 <<>>), required))
        sentinel == \E i \in 1..Len(required) :
                      Contains(Lower(required[i]), Str("no specific"))
    IN  /\ sentinel => call_result.score = R(10)
        /\ ~sentinel /\ required # <<>> =>
             call_result.score.num * Len(required) = 15 * found * call_result.score.den
        /\ Within(call_result.score, 0, 15)
        /\ call_result.missing # <<>> => ~sentinel /\ 2 * found < Len(required)
        /\ Len(call_result.suggestions) = Len(call_result.missing)

\* one of three required activities found: 5 points and two missing activities
C20_Witness ==
  /\ Called("_check_extracurricular_match")
  /\ Len(Get(call_args.scholarship, "required_extracurricular", <<>>)) = 3
  /\ REq(call_result.score, R(5))
  /\ Len(call_result.missing) = 2


\* C29: a scholarship map whose required_extracurricular is empty or absent gets
\* the extracurricular sub-score of the no-requirement sentinel, 10 points, with
\* nothing missing and nothing suggested.
C29_EmptyIsNoRequirement ==
  /\ Called("_check_extracurricular_match") =>
       (Get(call_args.scholarship, "required_extracurricular", <<>>) = <<>> =>
          /\ REq(call_result.score, R(10))
          /\ call_result.missing = <<>>
          /\ call_result.suggestions = <<>>)

(***************************************************************************)
(* Claims about the amounts of financial_calculation_tool                  *)
(***************************************************************************)
\* the descriptor of the amount of matched scholarship i, in lower case
AmountText(i) == Lower(Get(matched_scholarships[i], "scholarship_amount", Str("")))

FullKeyword(lower) ==
  \/ Contains(lower, Str("full tuition"))
  \/ Contains(lower, Str("full scholarship"))
  \/ Contains(lower, Str("100%"))

\* the places of the percent signs that follow a digit
PercentPlaces(lower) == {i \in 2..Len(lower) : lower[i] = "%" /\ IsDigit(lower[i - 1])}

\* the number that ends at s[j]: the digits of the longest run of digits ending there
NumberEndingAt(s, j) ==
  LET from == Least({k \in 1..j : \A n \in k..j : IsDigit(s[n])})
  IN  DigitsOf(s, from, j).val

\* the amounts written behind a dollar sign, in dollars, by the place of the sign;
\* an amount holds digits and commas and at least one digit
DollarPlaces(lower) ==
  {i \in 1..(Len(lower) - 1) :
     /\ lower[i] = "$"
     /\ \E j \in (i + 1)..Len(lower) :
          /\ IsDigit(lower[j])
          /\ \A n \in (i + 1)..j : IsDigit(lower[n]) \/ lower[n] = ","}

DollarAmountAt(lower, i) ==
  LET to == CHOOSE j \in i..Len(lower) :
              /\ \A n \in (i + 1)..j : IsDigit(lower[n]) \/ lower[n] = ","
              /\ j = Len(lower) \/ ~(IsDigit(lower[j + 1]) \/ lower[j + 1] = ",")
  IN  Dollars(DigitsOf(lower, i + 1, to).val)

\* C21: the annual amount of the scholarship follows the first rule that applies:
\* a full-tuition keyword gives the tuition ('Full tuition coverage' with a tuition
\* of 35000 over 4 years gives 35000 a year, 140000 in total and a net annual cost
\* of 0); else a percentage gives that part of the tuition; else an amount in
\* dollars is taken as written only when it is at most the tuition; else the
\* amount is half the tuition.  The total is the annual amount times the duration.
C21_AmountRules ==
  \A i \in 1..Len(fin_calls) :
    ~fin_calls[i].raised =>
      LET lower == AmountText(i)
          b == fin_calls[i].breakdown
          tuition == b.annual_tuition
          annual == b.scholarship_amount_annual
          percents == PercentPlaces(lower)
          places == DollarPlaces(lower)
          within == {DollarAmountAt(lower, p) : p \in places} \cap 0..tuition
      IN  /\ b.scholarship_total = annual * b.program_duration_years
          /\ FullKeyword(lower) => annual = tuition /\ b.net_annual_cost = 0
          /\ /\ lower = Str("full tuition coverage")
             /\ tuition = Dollars(35000)
             /\ b.program_duration_years = 4
             => /\ annual = Dollars(35000)
                /\ b.scholarship_total = Dollars(140000)
                /\ b.net_annual_cost = 0
          /\ ~FullKeyword(lower) /\ percents # {} =>
               100 * annual = tuition * NumberEndingAt(lower, Least(percents) - 1)
          /\ ~FullKeyword(lower) /\ percents = {} =>
               /\ annual \in within \/ 2 * annual = tuition
               /\ places = {} => 2 * annual = tuition
               /\ annual \notin within /\ places # {} =>
                    DollarAmountAt(lower, Least(places)) > tuition
               /\ Cardinality(places) = 1 =>
                    annual = (IF within # {} THEN DollarAmountAt(lower, Least(places))
                              ELSE tuition \div 2)

\* the scenario of C21: 'Full tuition coverage', a tuition of 35000 and 4 years
C21_Witness ==
  /\ pc = "returned"
  /\ Len(fin_calls) = 1
  /\ ~fin_calls[1].raised
  /\ AmountText(1) = Str("full tuition coverage")
  /\ fin_calls[1].breakdown.annual_tuition = Dollars(35000)
  /\ fin_calls[1].breakdown.program_duration_years = 4
  /\ fin_calls[1].breakdown.scholarship_total = Dollars(140000)

\* C27: in every FinancialBreakdown scholarship_amount_annual lies between 0 and
\* annual_tuition, whatever the descriptor of the amount is.
C27_AmountWithinTuition ==
  \A i \in 1..Len(fin_calls) :
    ~fin_calls[i].raised =>
      /\ fin_calls[i].breakdown.scholarship_amount_annual >= 0
      /\ fin_calls[i].breakdown.scholarship_amount_annual
           <= fin_calls[i].breakdown.annual_tuition

(***************************************************************************)
(* Claims about the tuition of financial_calculation_tool                  *)
(***************************************************************************)
\* the tuition figures of snippet k, in dollars: the amounts any of the tuition
\* phrasings holds, and of them the ones within 5000..100000
FiguresOf(k) ==
  LET lower == Lower(search_results[k])
      Amounts(p) == LET found == FindAll(lower, tuition_patterns[p])
                    IN  {FloatOf(lower, found[n]).val : n \in 1..Len(found)}
  IN  UNION {Amounts(p) : p \in 1..Len(tuition_patterns)}

FiguresWithin(k) == FiguresOf(k) \cap MinTuition..MaxTuition

\* whether snippet k mentions the university of matched scholarship i
Mentions(i, k) ==
  Contains(Lower(search_results[k]),
           Lower(Get(matched_scholarships[i], "university", Str("Unknown University"))))

\* the value of the table: ten times the tuition in cents, the multiplier being in
\* tenths
TableValue ==
  LET location == Lower(Get(student_profile, "target_location", Str("Unknown Location")))
      field == Lower(Get(student_profile, "target_field", Str("Unknown Field")))
      countries == {c \in 1..Len(base_tuition) : Contains(location, base_tuition[c][1])}
      fields == {f \in 1..Len(field_multipliers) : Contains(field, field_multipliers[f][1])}
      base == IF countries = {} THEN 25000 ELSE base_tuition[Least(countries)][2]
      multiplier == IF fields = {} THEN 10 ELSE field_multipliers[Least(fields)][2]
  IN  Dollars(base) * multiplier

\* C22: the tuition is a figure of the first snippet, in the order of the list,
\* that mentions the university and holds a tuition figure within 5000..100000;
\* figures outside the range and snippets that do not mention the university are
\* passed over; only when no snippet yields a figure the tuition is the value of
\* the table: the base tuition of the country, 25000 by default, times the
\* multiplier of the field.
C22_FirstSnippetFigure ==
  \A i \in 1..Len(fin_calls) :
    ~fin_calls[i].raised =>
      LET tuition == fin_calls[i].breakdown.annual_tuition
          yielding == {k \in 1..Len(search_results) :
                         Mentions(i, k) /\ FiguresWithin(k) # {}}
      IN  IF yielding # {}
          THEN tuition \in {Dollars(f) : f \in FiguresWithin(Least(yielding))}
          ELSE 10 * tuition = TableValue

\* a snippet that does not mention the university, then one of the university
\* with a figure above the range and a figure within it
C22_Witness ==
  /\ pc = "returned"
  /\ Len(fin_calls) = 1 /\ ~fin_calls[1].raised
  /\ Len(search_results) = 2
  /\ ~Mentions(1, 1) /\ FiguresWithin(1) # {}
  /\ Mentions(1, 2)
  /\ FiguresOf(2) \ FiguresWithin(2) # {}
  /\ fin_calls[1].breakdown.annual_tuition = Dollars(6500)

(***************************************************************************)
(* Further claims about scholarship_matching_tool                          *)
(***************************************************************************)
\* C23: every entry scholarship_matching_tool returns has a match level of FAIR or
\* better and a total score of at least 45; a scholarship of level POOR is not
\* returned.
C23_AtLeastFair ==
  pc = "returned" =>
    \A k \in 1..Len(match_output.matched_scholarships) :
      /\ match_output.matched_scholarships[k].match_level \in {"fair", "good", "excellent"}
      /\ RGeq(match_output.matched_scholarships[k].match_score, 45)

(***************************************************************************)
(* Claims about the demographics of the classifier and of the parser       *)
(***************************************************************************)
FemaleKeywords == <<Str("female"), Str("woman"), Str("girl"), <<"n", "ữ">> >>

MaleKeywords == <<Str("male"), Str("nam"), Str("boy"), Str("man")>>

\* the places the words take in lower
Occurrences(lower, words) ==
  UNION {{[from |-> i, to |-> i + Len(words[k]) - 1] :
            i \in {j \in 1..Len(lower) : StartsAt(lower, j, words[k])}} :
         k \in 1..Len(words)}

\* a male keyword that is not part of a female keyword
FreeMale(lower) ==
  \E m \in Occurrences(lower, MaleKeywords) :
    ~ \E f \in Occurrences(lower, FemaleKeywords) : f.from <= m.from /\ m.to <= f.to

\* C26: _extract_gender gives 'female' whenever the only gender keywords of the
\* text are female ones ('female', 'woman', 'girl', 'nữ'), and 'male' only when
\* the text holds a male keyword that is not part of a female keyword.
C26_GenderKeywords ==
  pc = "returned" /\ extracted.by = "_extract_gender" =>
    /\ Occurrences(Lower(text), FemaleKeywords) # {} /\ ~FreeMale(Lower(text)) =>
         extracted.list = Str("female")
    /\ extracted.list = Str("male") => FreeMale(Lower(text))

\* whether lower holds word at the start of a word: no letter stands before it
MentionsWord(lower, word) ==
  \E i \in 1..Len(lower) :
    /\ StartsAt(lower, i, word)
    /\ i = 1 \/ lower[i - 1] \notin {LowerCase[k] : k \in 1..Len(LowerCase)}

CertificateNames == {Str("ielts"), Str("toefl"), Str("sat"), Str("gre")}

ActivityWords ==
  UNION {{required_activity_keywords[k].keywords[n] :
            n \in 1..Len(required_activity_keywords[k].keywords)} :
         k \in 1..Len(required_activity_keywords)}

\* whether the criteria of the match hold the message of a branch
Criterion(message) ==
  \E k \in 1..Len(call_result.matching_criteria) :
    call_result.matching_criteria[k] = message

\* whether a list of requirements holds a sentinel of the parser
HoldsSentinel(list) ==
  \E k \in 1..Len(list) :
    list[k] \in {NoSpecificCertificates, NoSpecificExtracurricular}

\* C24: the matching recognises the sentinels of the parser.  For a parsed section
\* that mentions none of IELTS, TOEFL, SAT and GRE, _check_certificate_match takes
\* the branch of no requirement; for a parsed section with no activity keyword
\* _check_extracurricular_match does; and no list with a sentinel entry reaches
\* the loop over the requirements.
C24_SentinelsRecognised ==
  pc = "returned" =>
    /\ (\A name \in CertificateNames : ~MentionsWord(Lower(text), name)) =>
         Criterion("Certificates: No specific requirements")
    /\ (\A word \in ActivityWords : ~MentionsWord(Lower(text), word)) =>
         Criterion("Extracurricular: No specific requirements")
    /\ HoldsSentinel(extracted.required_certificates) =>
         Criterion("Certificates: No specific requirements")
    /\ HoldsSentinel(extracted.required_extracurricular) =>
         Criterion("Extracurricular: No specific requirements")

\* the age groups _extract_age_group gives: one of an age of one or two digits, or
\* the default
StudentAgeGroups == {age_group_of(age) : age \in 0..99} \cup {DefaultAgeGroup}

\* C25: every target_age_group of a parsed scholarship other than 'all' is an
\* age_group the classifier gives to some student, with which the age group
\* scores its 4 points.
C25_AgeGroupAttainable ==
  pc \in {"parsed", "returned"} /\ extracted.target_age_group # Str("all") =>
    \E age_group \in StudentAgeGroups :
      /\ age_group = extracted.target_age_group
      /\ AgeMatch([age_group |-> age_group], extracted).score = 4

\* C28: for one scholarship and a student map that is otherwise the same, a
\* higher profile_score never gives a lower academic sub-score nor a lower total
\* match score.
C28_MonotoneInProfileScore ==
  \A i, j \in 1..Len(call_result) :
    call_args[i].profile_score < call_args[j].profile_score =>
      /\ ~RLess(call_result[j].academic_score, call_result[i].academic_score)
      /\ ~RLess(call_result[j].match_score, call_result[i].match_score)
      /\ Round1(call_result[j].match_score) >= Round1(call_result[i].match_score)

\* a student analysed at the profile scores 7 and 8 for a GPA of 3.5: the GPA is
\* close to the minimum at 7 and meets it at 8
C28_Witness ==
  /\ pc = "analyzed"
  /\ \E i, j \in 1..Len(call_result) :
       /\ call_args[i].profile_score = 7
       /\ call_args[j].profile_score = 8
       /\ Get(available_scholarships[1], "academic_requirements", <<>>)
            = <<Str("Minimum GPA: 3.5")>>
       /\ REq(call_result[i].academic_score, R(22))
       /\ REq(call_result[j].academic_score, R(30))


(***************************************************************************)
(* Claims about the first step of process_counseling_request              *)
(***************************************************************************)
\* execution r ended with the error message before step 2 launched an agent:
\* no agent call of a later stage was made, so the exception came from step 1
EndedInStep1(r) ==
  /\ pc[r] = "error"
  /\ \A s \in Stages : tasks[r][s] = "none"

\* C30: an exception of the coordinator agent in _step_1_coordination is handled
\* inside the step, which stores an error record in structured_input and sets
\* step_1_complete to False; process_counseling_request goes on to step 2 and
\* never ends with the error message because of step 1.
C30_Step1Recovers ==
  \A r \in Requests :
    /\ ~EndedInStep1(r)
    /\ pc[r] \notin {"idle", "step 1"} => workflow_state.structured_input # Unset

=============================================================================
